---- MODULE Spec2Model ----
(***************************************************************************)
(* Model of the poe.ninja reconciliation engine of poe_tracker/api.py.     *)
(*                                                                         *)
(* Text is modelled by TLA+ strings, read character by character with     *)
(* SubSeq(s, i, i).  A JSON value (and every dynamically typed Python      *)
(* value) is a tagged record: Null, JInt, JFloat, JStr, JList, JObj.       *)
(* Floats are modelled as exact rationals n/d in lowest terms.             *)
(***************************************************************************)
EXTENDS Integers, Sequences, FiniteSets, TLC

VARIABLES
    pc,         \* position of the running call
    req,        \* arguments of the running call
    ret,        \* value returned by the call (Null while running)
    error,      \* exception that escaped the call ("none" while there is none)
    hashseed,   \* the process's string-hash seed: fixes every set iteration order
    lv          \* the local variables of the running call

vars == <<pc, req, ret, error, hashseed, lv>>

-----------------------------------------------------------------------------
(* Bounds of the model *)

\* number of distinct string-hash seeds (set iteration orders) explored
NumSeeds == 2
\* largest number of fields present in a line handed to the value cascade
MaxFields == 3
\* largest number of lines in an exchange overview body
MaxExchangeLines == 1
\* largest number of rows in a temp overview body
MaxItems == 2
\* largest number of lines in a currency overview body of poe2
MaxOverviewLines == 2
\* largest number of lines in a currency overview body of the legacy game
MaxLegacyLines == 3
\* number of candidate names of the temp overview under which the server holds rows
MaxDataAliases == 2
\* largest number of rows and of lines handed to _merge_poe2_data and its lookup
MaxMergeItems == 1
MaxMergeLines == 2
\* largest number of values handed to one call of _collect_keys
MaxKeyValues == 2
\* largest number of ids handed to _fetch_poe2_exchange_details
MaxDetailIds == 51
\* largest number of metadata records handed to _build_detail_maps
MaxDetailRecords == 3
\* largest number of entries handed to _deduplicate_entries
MaxDedupEntries == 3
\* longest text handed to _extract_float
MaxTextLen == 3
\* largest number of entries and of exchange lines handed to _apply_exchange_overview_data
MaxOverlayEntries == 2
MaxOverlayLines == 2
\* largest number of entries in a list handed to _apply_exalted_values
MaxExaltEntries == 2

-----------------------------------------------------------------------------
(* Text *)

UpperChars == "ABCDEFGHIJKLMNOPQRSTUVWXYZ"
LowerChars == "abcdefghijklmnopqrstuvwxyz"
DigitChars == "0123456789"

\* the value of a function of one argument: [x \in {v} |-> e] names v as x in e
Only(f) == f[CHOOSE x \in DOMAIN f : TRUE]

CharAt(s, i) == SubSeq(s, i, i)

\* a left fold over the characters of s
RECURSIVE FoldChars(_, _, _, _)
FoldChars(Op(_, _), acc, s, i) == IF i > Len(s) THEN acc ELSE FoldChars(Op, Op(acc, CharAt(s, i)), s, i + 1)

FoldLeftChars(Op(_, _), acc, s) == FoldChars(Op, acc, s, 1)

\* the position of the first occurrence of the character c in s, 0 when there is none
IndexIn(s, c) == IF \E i \in 1..Len(s) : CharAt(s, i) = c THEN CHOOSE i \in 1..Len(s) : CharAt(s, i) = c ELSE 0

\* the lower-case letter of each upper-case letter, and the reverse
LowerMap == [c \in {CharAt(UpperChars, i) : i \in 1..Len(UpperChars)} |-> CharAt(LowerChars, IndexIn(UpperChars, c))]
UpperMap == [c \in {CharAt(LowerChars, i) : i \in 1..Len(LowerChars)} |-> CharAt(UpperChars, IndexIn(LowerChars, c))]

\* the value of each decimal digit
DigitMap == [c \in {CharAt(DigitChars, i) : i \in 1..Len(DigitChars)} |-> IndexIn(DigitChars, c) - 1]

\* one character of str.lower()
LowerChar(c) == IF c \in DOMAIN LowerMap THEN LowerMap[c] ELSE c

\* one character of str.upper()
UpperChar(c) == IF c \in DOMAIN UpperMap THEN UpperMap[c] ELSE c

\* str.lower()
Lower(s) == FoldLeftChars(LAMBDA acc, c : acc \o LowerChar(c), "", s)

IsSpace(c) == c \in {" ", "\t", "\n", "\r"}

IsDigit(c) == c \in DOMAIN DigitMap

\* \w of the re module, restricted to ASCII
IsWordChar(c) == c \in DOMAIN LowerMap \/ c \in DOMAIN UpperMap \/ c \in DOMAIN DigitMap \/ c = "_"

RECURSIVE LStrip(_)
LStrip(s) == IF Len(s) > 0 /\ IsSpace(CharAt(s, 1)) THEN LStrip(SubSeq(s, 2, Len(s))) ELSE s

RECURSIVE RStrip(_)
RStrip(s) == IF Len(s) > 0 /\ IsSpace(CharAt(s, Len(s))) THEN RStrip(SubSeq(s, 1, Len(s) - 1)) ELSE s

\* str.strip()
Strip(s) == RStrip(LStrip(s))

\* str.replace(a, b) for a single character a
ReplaceChar(s, a, b) == FoldLeftChars(LAMBDA acc, c : acc \o (IF c = a THEN b ELSE c), "", s)

\* str.split() with no argument: the maximal runs of non-whitespace
SplitWords(s, cur, acc) ==
    Only([done \in {FoldLeftChars(LAMBDA st, c : IF IsSpace(c)
                                      THEN [cur |-> "", acc |-> IF st.cur = "" THEN st.acc ELSE Append(st.acc, st.cur)]
                                      ELSE [cur |-> st.cur \o c, acc |-> st.acc],
                       [cur |-> cur, acc |-> acc], s)} |->
        IF done.cur = "" THEN done.acc ELSE Append(done.acc, done.cur)])

Split(s) == SplitWords(s, "", <<>>)

\* " ".join(words)
RECURSIVE JoinSpace(_)
JoinSpace(words) ==
    IF Len(words) = 0 THEN ""
    ELSE IF Len(words) = 1 THEN words[1]
    ELSE words[1] \o " " \o JoinSpace(Tail(words))

\* str.capitalize()
Capitalize(w) == IF Len(w) = 0 THEN "" ELSE UpperChar(CharAt(w, 1)) \o Lower(SubSeq(w, 2, Len(w)))

\* sub in s
Contains(s, sub) == \E i \in 1..(Len(s) - Len(sub) + 1) : SubSeq(s, i, i + Len(sub) - 1) = sub

StartsWith(s, prefix) == Len(s) >= Len(prefix) /\ SubSeq(s, 1, Len(prefix)) = prefix

-----------------------------------------------------------------------------
(* Numbers: Python floats as exact rationals *)

Abs(k) == IF k < 0 THEN -k ELSE k

RECURSIVE GCD(_, _)
GCD(a, b) == IF b = 0 THEN a ELSE GCD(b, a % b)

Null == [t |-> "null"]

JInt(k) == [t |-> "int", n |-> k]

\* the float n/d, d # 0, in lowest terms with a positive denominator
JFloat(n, d) ==
    Only([g \in {GCD(Abs(n), Abs(d))} |->
    Only([s \in {IF d < 0 THEN -1 ELSE 1} |->
        [t |-> "float", n |-> (s * n) \div g, d |-> (s * d) \div g]])])

JStr(s) == [t |-> "str", s |-> s]

JList(items) == [t |-> "list", items |-> items]

JObj(fields) == [t |-> "obj", f |-> fields]

EmptyObj == JObj(<<>>)

IsNull(v) == v.t = "null"
IsNum(v) == v.t \in {"int", "float"}
IsStr(v) == v.t = "str"
IsList(v) == v.t = "list"
IsDict(v) == v.t = "obj"

\* numerator and denominator of a number
NumOf(v) == v.n
DenOf(v) == IF v.t = "int" THEN 1 ELSE v.d

\* float(v) for a number v
ToFloat(v) == JFloat(NumOf(v), DenOf(v))

FMul(a, b) == JFloat(NumOf(a) * NumOf(b), DenOf(a) * DenOf(b))

\* a / b for b # 0
FDiv(a, b) == JFloat(NumOf(a) * DenOf(b), DenOf(a) * NumOf(b))

\* a > b
FGt(a, b) == NumOf(a) * DenOf(b) > NumOf(b) * DenOf(a)

FEq(a, b) == NumOf(a) * DenOf(b) = NumOf(b) * DenOf(a)

FZero == JFloat(0, 1)
FOne == JFloat(1, 1)

\* bool(v): Python truthiness
Truthy(v) ==
    CASE v.t = "null" -> FALSE
      [] v.t = "int" -> v.n # 0
      [] v.t = "float" -> v.n # 0
      [] v.t = "str" -> v.s # ""
      [] v.t = "list" -> Len(v.items) > 0
      [] v.t = "obj" -> DOMAIN v.f # {}
      [] OTHER -> TRUE

\* a or b
Or(a, b) == IF Truthy(a) THEN a ELSE b

\* dict.get(key) on a JSON object; the callers guard it with isinstance(o, dict), and the
\* value read behind a failed guard is never used
Get(o, key) == IF o.t = "obj" /\ key \in DOMAIN o.f THEN o.f[key] ELSE Null

\* dict.get(key, {}) on a JSON object
GetOrEmpty(o, key) == IF key \in DOMAIN o.f THEN o.f[key] ELSE EmptyObj

\* key in dict
Has(o, key) == key \in DOMAIN o.f

\* the object o with o[key] = value
Put(o, key, value) == JObj([k \in (DOMAIN o.f) \cup {key} |-> IF k = key THEN value ELSE o.f[k]])

-----------------------------------------------------------------------------
(* Iteration order of a Python set of strings *)

Reverse(lst) == [i \in 1..Len(lst) |-> lst[Len(lst) + 1 - i]]

RotateLeft(lst, k) == [i \in 1..Len(lst) |-> lst[((i - 1 + k) % Len(lst)) + 1]]

\* the characters in the order of their code points, and the rank of each
CodeOrder == " !#&'()+,-./0123456789:ABCDEFGHIJKLMNOPQRSTUVWXYZ_abcdefghijklmnopqrstuvwxyz"
CodeMap == [c \in {CharAt(CodeOrder, i) : i \in 1..Len(CodeOrder)} |-> IndexIn(CodeOrder, c)]
CodeOf(c) == IF c \in DOMAIN CodeMap THEN CodeMap[c] ELSE 0

\* a < b on strings, from position i on
RECURSIVE LessFrom(_, _, _)
LessFrom(a, b, i) ==
    IF i > Len(a) THEN i <= Len(b)
    ELSE IF i > Len(b) THEN FALSE
    ELSE IF CharAt(a, i) = CharAt(b, i) THEN LessFrom(a, b, i + 1)
    ELSE CodeOf(CharAt(a, i)) < CodeOf(CharAt(b, i))

\* the ascending list sorted with the string x put at its place, unless it is there already
InsertAscending(sorted, x) ==
    IF \E i \in 1..Len(sorted) : sorted[i] = x THEN sorted
    ELSE Only([p \in {Cardinality({j \in 1..Len(sorted) : LessFrom(sorted[j], x, 1)})} |->
             SubSeq(sorted, 1, p) \o <<x>> \o SubSeq(sorted, p + 1, Len(sorted))])

\* the distinct strings of lst in ascending order
RECURSIVE Ascending(_)
Ascending(lst) == IF Len(lst) = 0 THEN <<>> ELSE InsertAscending(Ascending(Tail(lst)), lst[1])

\* The order in which a set of the strings of lst is iterated.  String hashing is
\* seeded per process, so the order is a function of the seed and of the
\* elements: odd seeds rotate the ascending order, even seeds the descending one.
SetIter(lst, seed) ==
    Only([d \in {Ascending(lst)} |->
        IF Len(d) = 0 THEN d
        ELSE IF seed % 2 = 1 THEN RotateLeft(d, (seed - 1) \div 2)
        ELSE RotateLeft(Reverse(d), (seed - 2) \div 2)])

-----------------------------------------------------------------------------
(* Value Extractor *)

RECURSIVE Pow10(_)
Pow10(k) == IF k = 0 THEN 1 ELSE 10 * Pow10(k - 1)

DigitsValue(s, acc) == FoldLeftChars(LAMBDA v, c : 10 * v + DigitMap[c], acc, s)

AllDigits(s) == \A i \in 1..Len(s) : IsDigit(CharAt(s, i))

\* float(text): surrounding whitespace, an optional sign, digits with at most
\* one decimal point.  Null stands for ValueError.  (Exponents, "inf", "nan"
\* and digit-group underscores are outside the modelled inputs.)
ParseFloat(text) ==
    Only([t \in {Strip(text)} |->
    Only([signed \in {Len(t) > 0 /\ CharAt(t, 1) \in {"+", "-"}} |->
    Only([body \in {IF signed THEN SubSeq(t, 2, Len(t)) ELSE t} |->
    Only([dot \in {IndexIn(body, ".")} |->
    Only([whole \in {IF dot = 0 THEN body ELSE SubSeq(body, 1, dot - 1)} |->
    Only([frac \in {IF dot = 0 THEN "" ELSE SubSeq(body, dot + 1, Len(body))} |->
        IF AllDigits(whole) /\ AllDigits(frac) /\ Len(whole) + Len(frac) > 0
        THEN JFloat((IF signed /\ CharAt(t, 1) = "-" THEN -1 ELSE 1)
                        * (DigitsValue(whole, 0) * Pow10(Len(frac)) + DigitsValue(frac, 0)),
                    Pow10(Len(frac)))
        ELSE Null])])])])])])

\* JSON true and false: json.loads yields a bool, which is an int to isinstance
JBool(b) == [t |-> "bool", b |-> b]

\* a JSON integer literal beyond the largest float: json.loads yields an int
JHuge == [t |-> "huge"]

\* float(value) of _extract_float raises OverflowError on such an int
ExtractFloatRaises(value) == value.t = "huge"

\* _extract_float
ExtractFloat(value) ==
    IF IsNum(value) THEN ToFloat(value)
    ELSE IF value.t = "bool" THEN (IF value.b THEN JFloat(1, 1) ELSE JFloat(0, 1))
    ELSE IF IsStr(value) THEN ParseFloat(value.s)
    ELSE Null

-----------------------------------------------------------------------------
(* Key Normalizer *)

\* _norm_key
NormKey(text) == IF ~IsStr(text) THEN Null ELSE JStr(Lower(Strip(text.s)))

SlugOfUnderscore(base) == ReplaceChar(base, " ", "_")
\* the slug of a normalized text
SlugOf(base) == ReplaceChar(base, " ", "-")

\* _slug_key
SlugKey(text) ==
    Only([base \in {NormKey(text)} |-> IF IsNull(base) THEN Null ELSE JStr(SlugOf(base.s))])

\* _PUNCT_CLEANER.sub("", s): drops every character outside [\w\s-]
PunctCleaned(s) ==
    FoldLeftChars(LAMBDA acc, c : IF IsWordChar(c) \/ IsSpace(c) \/ c = "-" THEN acc \o c ELSE acc, "", s)

\* the normalized text without punctuation, its runs of whitespace collapsed
NopunctOf(base) == JoinSpace(Split(PunctCleaned(base)))

\* _nopunct_key
NopunctKey(text) ==
    Only([base \in {NormKey(text)} |-> IF IsNull(base) THEN Null ELSE JStr(NopunctOf(base.s))])

RECURSIVE NatToStr(_)
NatToStr(k) == IF k < 10 THEN CharAt(DigitChars, k + 1) ELSE NatToStr(k \div 10) \o CharAt(DigitChars, (k % 10) + 1)

\* str(int(value)) for a number: int() truncates towards zero
IntStr(value) ==
    Only([q \in {Abs(NumOf(value)) \div DenOf(value)} |->
        IF NumOf(value) < 0 /\ q > 0 THEN "-" \o NatToStr(q) ELSE NatToStr(q)])

\* the truthy variants of one text value, in the iteration order of the set
VariantKeys(value, seed) ==
    Only([base \in {NormKey(value).s} |->
        SelectSeq(SetIter(<<base, SlugOf(base), NopunctOf(base)>>, seed), LAMBDA k : k # "")])

\* _collect_keys(*values): the keys as a list of strings
RECURSIVE CollectKeys(_, _)
CollectKeys(values, seed) ==
    IF Len(values) = 0 THEN <<>>
    ELSE Only([value \in {values[1]} |->
         Only([here \in {IF IsNull(value) THEN <<>>
              ELSE IF IsNum(value) THEN <<IntStr(value)>>
              ELSE IF ~IsStr(value) THEN <<>>
              ELSE VariantKeys(value, seed)} |->
             here \o CollectKeys(Tail(values), seed)])])

\* _humanize_slug
HumanizeSlug(slug) ==
    Only([text \in {Strip(ReplaceChar(ReplaceChar(slug, "_", " "), "-", " "))} |->
    Only([words \in {Split(text)} |->
        IF text = "" THEN slug
        ELSE JoinSpace([i \in 1..Len(words) |-> Capitalize(words[i])])])])

-----------------------------------------------------------------------------
(* Chaos-Equivalent Resolver *)

\* _compute_chaos_from_line
ComputeChaosFromLine(line, divine_rate) ==
    Only([direct \in {Or(ExtractFloat(Get(line, "chaosEquivalent")),
         Or(ExtractFloat(Get(line, "chaosValue")),
         Or(ExtractFloat(Get(line, "secondaryValue")),
         Or(ExtractFloat(Get(line, "valueChaos")),
            ExtractFloat(Get(line, "secondary"))))))} |->
    Only([primary_value \in {ExtractFloat(Get(line, "primaryValue"))} |->
    Only([volume_primary \in {ExtractFloat(Get(line, "volumePrimaryValue"))} |->
    Only([rate \in {Get(line, "rate")} |->
    Only([chaos_per_item \in {ExtractFloat(Get(rate, "chaosPerItem"))} |->
    Only([items_per_chaos \in {ExtractFloat(Get(rate, "chaos"))} |->
    Only([chaos_eq \in {ExtractFloat(Get(rate, "chaosValue"))} |->
    Only([divine_value \in {ExtractFloat(Get(rate, "divine"))} |->
        IF ~IsNull(direct) THEN direct
        ELSE IF ~IsNull(primary_value) /\ Truthy(divine_rate) THEN FMul(primary_value, divine_rate)
        ELSE IF ~IsNull(volume_primary) /\ Truthy(divine_rate) THEN FMul(volume_primary, divine_rate)
        ELSE IF ~IsDict(rate) THEN Null
        ELSE IF ~IsNull(chaos_per_item) THEN chaos_per_item
        ELSE IF Truthy(items_per_chaos) /\ FGt(items_per_chaos, FZero) THEN FDiv(FOne, items_per_chaos)
        ELSE IF ~IsNull(chaos_eq) THEN chaos_eq
        ELSE IF ~IsNull(divine_value) /\ Truthy(divine_rate) THEN FMul(divine_value, divine_rate)
        ELSE Null])])])])])])])])

-----------------------------------------------------------------------------
(* Lists, dictionaries and small extractors *)

RECURSIVE FoldLeft(_, _, _)
FoldLeft(Op(_, _), acc, lst) == IF Len(lst) = 0 THEN acc ELSE FoldLeft(Op, Op(acc, lst[1]), Tail(lst))

\* a or b or c ... over a list of operands: the first truthy one, else the last
OrChain(operands) == FoldLeft(LAMBDA a, b : Or(a, b), operands[1], Tail(operands))

\* a dictionary with string keys is a function; dict.get(key) for any key value
Lookup(dict, key) == IF IsStr(key) /\ key.s \in DOMAIN dict THEN dict[key.s] ELSE Null

\* dict[key] = value
Store(dict, key, value) == (key :> value) @@ dict

UpdateKeepingFirst(dict, other) == dict @@ other
\* dict.update(other)
Update(dict, other) == other @@ dict

\* the fractional digits of rem/den
RECURSIVE FracDigits(_, _, _)
FracDigits(rem, den, left) ==
    IF rem = 0 \/ left = 0 THEN ""
    ELSE NatToStr((10 * rem) \div den) \o FracDigits((10 * rem) % den, den, left - 1)

\* str(value) for a number or a string
StrOf(value) ==
    IF IsStr(value) THEN value.s
    ELSE IF value.t = "int" THEN IntStr(value)
    ELSE (IF value.n < 0 /\ Abs(value.n) < value.d THEN "-0" ELSE IntStr(value)) \o "."
         \o (IF Abs(value.n) % value.d = 0 THEN "0" ELSE FracDigits(Abs(value.n) % value.d, value.d, 17))

\* int(round(value)): round half to even
RoundInt(value) ==
    Only([n \in {NumOf(value)} |->
    Only([d \in {DenOf(value)} |->
    Only([fl \in {IF n >= 0 THEN n \div d ELSE -((-n + d - 1) \div d)} |->
    Only([twice \in {2 * (n - fl * d)} |->
        JInt(IF twice < d THEN fl ELSE IF twice > d THEN fl + 1 ELSE IF fl % 2 = 0 THEN fl ELSE fl + 1)])])])])

\* int(value): truncation towards zero
TruncInt(value) ==
    JInt(IF NumOf(value) >= 0 THEN NumOf(value) \div DenOf(value) ELSE -((-NumOf(value)) \div DenOf(value)))

\* the floats of a list of JSON values, unparseable items dropped
FloatsOf(items) ==
    FoldLeft(LAMBDA acc, item : IF IsNull(ExtractFloat(item)) THEN acc ELSE Append(acc, ExtractFloat(item)),
             <<>>, items)

\* _extract_sparkline
ExtractSparkline(sparkline) ==
    IF IsList(sparkline) THEN JList(FloatsOf(sparkline.items))
    ELSE IF ~IsDict(sparkline) THEN JList(<<>>)
    ELSE Only([data \in {OrChain(<<Get(sparkline, "data"), Get(sparkline, "values"), Get(sparkline, "sparkLine")>>)} |->
             IF ~IsList(data) THEN JList(<<>>) ELSE JList(FloatsOf(data.items))])

\* _extract_trade_count
RECURSIVE TradeCountFrom(_, _)
TradeCountFrom(node, names) ==
    IF Len(names) = 0 THEN Null
    ELSE Only([value \in {Get(node, names[1])} |->
             IF value.t = "int" THEN value
             ELSE IF value.t = "float" THEN TruncInt(value)
             ELSE TradeCountFrom(node, Tail(names))])

ExtractTradeCount(node) ==
    IF ~IsDict(node) THEN Null ELSE TradeCountFrom(node, <<"count", "volume", "listingCount", "total">>)

\* _extract_history_series
ExtractHistorySeries(history) ==
    IF ~IsList(history) THEN JList(<<>>)
    ELSE JList(FoldLeft(
            LAMBDA acc, point :
                Only([value \in {IF IsDict(point)
                     THEN ExtractFloat(OrChain(<<Get(point, "value"), Get(point, "chaosValue"),
                                                 Get(point, "secondaryValue")>>))
                     ELSE ExtractFloat(point)} |->
                    IF IsNull(value) THEN acc ELSE Append(acc, value)]),
            <<>>, history.items))

\* the first of the candidate nodes that is an object
RECURSIVE FirstDict(_, _)
FirstDict(line, names) ==
    IF Len(names) = 0 THEN Null
    ELSE IF IsDict(Get(line, names[1])) THEN Get(line, names[1])
    ELSE FirstDict(line, Tail(names))

\* _extract_currency_node
ExtractCurrencyNode(line) ==
    FirstDict(line, <<"currency", "payCurrency", "targetCurrency", "receiveCurrency", "item",
                      "currencyDetails", "details">>)

CurrencyIdKeys ==
    <<"currencyId", "id", "receiveCurrencyId", "payCurrencyId", "targetCurrencyId", "itemId", "currencyTypeId">>

RECURSIVE IdFrom(_, _)
IdFrom(node, names) ==
    IF Len(names) = 0 THEN Null
    ELSE Only([value \in {Get(node, names[1])} |->
             IF IsNum(value) THEN JStr(IntStr(value))
             ELSE IF IsStr(value) /\ value.s # "" THEN value
             ELSE IdFrom(node, Tail(names))])

\* _infer_currency_id
InferCurrencyId(line, currency_node) ==
    IF ~IsNull(IdFrom(line, CurrencyIdKeys)) THEN IdFrom(line, CurrencyIdKeys)
    ELSE IF IsDict(currency_node) THEN IdFrom(currency_node, CurrencyIdKeys)
    ELSE Null

DetailsIdKeys ==
    <<"detailsId", "detailId", "currencyDetailsId", "payCurrencyDetailsId", "receiveCurrencyDetailsId">>

RECURSIVE FirstStr(_, _)
FirstStr(node, names) ==
    IF Len(names) = 0 THEN Null
    ELSE IF IsStr(Get(node, names[1])) THEN Get(node, names[1])
    ELSE FirstStr(node, Tail(names))

\* _infer_details_id
InferDetailsId(line, currency_node) ==
    IF ~IsNull(FirstStr(line, DetailsIdKeys)) THEN FirstStr(line, DetailsIdKeys)
    ELSE IF IsDict(currency_node) /\ ~IsNull(FirstStr(currency_node, DetailsIdKeys))
         THEN FirstStr(currency_node, DetailsIdKeys)
    ELSE InferCurrencyId(line, currency_node)

\* the first float found under the given keys, tested with `is not None`
RECURSIVE FirstFloat(_, _)
FirstFloat(node, names) ==
    IF Len(names) = 0 THEN Null
    ELSE IF ~IsNull(ExtractFloat(Get(node, names[1]))) THEN ExtractFloat(Get(node, names[1]))
    ELSE FirstFloat(node, Tail(names))

\* the first non-zero float found under the given keys, tested by truthiness
RECURSIVE FirstTruthyFloat(_, _)
FirstTruthyFloat(node, names) ==
    IF Len(names) = 0 THEN Null
    ELSE IF Truthy(ExtractFloat(Get(node, names[1]))) THEN ExtractFloat(Get(node, names[1]))
    ELSE FirstTruthyFloat(node, Tail(names))

\* the first non-blank string among the values, stripped when strip is set
RECURSIVE FirstText(_, _)
FirstText(values, strip) ==
    IF Len(values) = 0 THEN Null
    ELSE IF IsStr(values[1]) /\ Strip(values[1].s) # ""
         THEN (IF strip THEN JStr(Strip(values[1].s)) ELSE values[1])
    ELSE FirstText(Tail(values), strip)

-----------------------------------------------------------------------------
(* Detail Map Builder and the exchange rows *)

\* one record of _build_detail_maps folded into the two maps
DetailMapsStep(maps, entry) ==
    Only([alt \in {Get(entry, "details")} |->
    Only([name0 \in {OrChain(<<Get(entry, "name"), Get(entry, "currencyTypeName"), Get(entry, "displayName")>>)} |->
    Only([name \in {IF IsDict(alt) THEN Or(Get(alt, "name"), name0) ELSE name0} |->
    Only([icon \in {IF IsDict(alt) THEN Or(Get(alt, "icon"), Get(entry, "icon")) ELSE Get(entry, "icon")} |->
    Only([details0 \in {Get(entry, "detailsId")} |->
    Only([details_id \in {IF IsDict(alt) /\ ~Truthy(details0) THEN Get(alt, "detailsId") ELSE details0} |->
    Only([ident0 \in {Or(Get(entry, "id"), Get(entry, "currencyId"))} |->
    Only([identifier \in {IF IsDict(alt) /\ ~Truthy(ident0) THEN Or(Get(alt, "id"), Get(alt, "currencyId")) ELSE ident0} |->
    Only([keys \in {(IF IsStr(name) THEN <<name.s>> ELSE <<>>)
         \o (IF IsStr(details_id) THEN <<details_id.s>> ELSE <<>>)
         \o (IF IsNum(identifier) \/ IsStr(identifier) THEN <<StrOf(identifier)>> ELSE <<>>)} |->
        FoldLeft(LAMBDA m, key : [icons |-> IF IsStr(icon) THEN Store(m.icons, key, icon) ELSE m.icons,
                                  names |-> IF IsStr(name) THEN Store(m.names, key, name) ELSE m.names],
                 maps, keys)])])])])])])])])])

\* _build_detail_maps: later records overwrite earlier ones
BuildDetailMaps(currency_details) ==
    FoldLeft(LAMBDA maps, entry : DetailMapsStep(maps, entry), [icons |-> <<>>, names |-> <<>>], currency_details)

\* list(obj.values()); the member order of a JSON object is not represented,
\* the modelled responses carry their details as lists
RECURSIVE ValuesOf(_, _)
ValuesOf(fields, names) ==
    IF names = {} THEN <<>>
    ELSE Only([k \in {CHOOSE n \in names : TRUE} |->
             <<fields[k]>> \o ValuesOf(fields, names \ {k})])

\* urllib.parse.urljoin("https://poe.ninja", icon) for a path or a relative reference
UrlJoin(icon) ==
    IF StartsWith(icon, "//") THEN "https:" \o icon
    ELSE IF StartsWith(icon, "/") THEN "https://poe.ninja" \o icon
    ELSE "https://poe.ninja/" \o icon

\* _normalize_icon_url
NormalizeIconUrl(icon) ==
    IF ~IsStr(icon) \/ Strip(icon.s) = "" THEN Null
    ELSE IF StartsWith(icon.s, "http://") \/ StartsWith(icon.s, "https://") THEN icon
    ELSE JStr(UrlJoin(icon.s))

\* core.get("rates") or {}
RatesOf(core) == Or(Get(core, "rates"), EmptyObj)

\* _derive_chaos_per_primary
DeriveChaosPerPrimary(core) ==
    IF ~IsDict(core) THEN Null
    ELSE IF Get(core, "primary") = JStr("chaos") THEN FOne
    ELSE IF Get(core, "secondary") = JStr("chaos") /\ Truthy(ExtractFloat(Get(RatesOf(core), "chaos")))
         THEN ExtractFloat(Get(RatesOf(core), "chaos"))
    ELSE IF Truthy(ExtractFloat(Get(RatesOf(core), "secondary"))) THEN ExtractFloat(Get(RatesOf(core), "secondary"))
    ELSE Null

\* _derive_divine_rate_from_core
DeriveDivineRateFromCore(core, chaos_per_primary) ==
    IF ~IsDict(core) THEN chaos_per_primary
    ELSE IF Get(core, "primary") = JStr("divine") /\ Truthy(chaos_per_primary) THEN chaos_per_primary
    ELSE IF Truthy(ExtractFloat(Get(RatesOf(core), "divine"))) THEN ExtractFloat(Get(RatesOf(core), "divine"))
    ELSE chaos_per_primary

\* _compute_exchange_chaos_value
ComputeExchangeChaosValue(line, chaos_per_primary) ==
    Only([primary_value \in {ExtractFloat(Get(line, "primaryValue"))} |->
    Only([secondary_value \in {ExtractFloat(Get(line, "secondaryValue"))} |->
    Only([chaos_equivalent \in {OrChain(<<ExtractFloat(Get(line, "chaosEquivalent")),
                   ExtractFloat(Get(line, "chaosValue")),
                   ExtractFloat(Get(line, "valueChaos"))>>)} |->
    Only([rate \in {Get(line, "rate")} |->
    Only([chaos_per_item \in {ExtractFloat(Get(rate, "chaosPerItem"))} |->
    Only([items_per_chaos \in {ExtractFloat(Get(rate, "chaos"))} |->
        IF ~IsDict(line) THEN Null
        ELSE IF ~IsNull(primary_value) /\ Truthy(chaos_per_primary) THEN FMul(primary_value, chaos_per_primary)
        ELSE IF ~IsNull(secondary_value) THEN secondary_value
        ELSE IF ~IsNull(chaos_equivalent) THEN chaos_equivalent
        ELSE IF ~IsDict(rate) THEN Null
        ELSE IF ~IsNull(chaos_per_item) THEN chaos_per_item
        ELSE IF Truthy(items_per_chaos) /\ FGt(items_per_chaos, FZero) THEN FDiv(FOne, items_per_chaos)
        ELSE Null])])])])])])

\* str(raw_id) of an item or line id; Null when the id is neither number nor text
RawId(node) == IF IsNum(Get(node, "id")) \/ IsStr(Get(node, "id")) THEN JStr(StrOf(Get(node, "id"))) ELSE Null

\* one element of exchange_data["items"] folded into item_lookup and the maps
ExchangeItemStep(acc, item) ==
    IF ~IsDict(item) \/ IsNull(RawId(item)) THEN acc
    ELSE Only([item_id \in {RawId(item)} |->
         Only([details_id \in {Or(Get(item, "detailsId"), item_id)} |->
         Only([name \in {Or(Get(item, "name"), JStr(HumanizeSlug(IF IsStr(details_id) THEN details_id.s ELSE item_id.s)))} |->
         Only([icon_url \in {NormalizeIconUrl(Get(item, "image"))} |->
         Only([entry \in {JObj([id |-> item_id, name |-> name,
                    detailsId |-> IF IsStr(details_id) THEN details_id ELSE Null,
                    icon |-> icon_url])} |->
         Only([icons1 \in {IF Truthy(icon_url)
              THEN Store(Store(acc.icons, item_id.s, icon_url), name.s, icon_url) ELSE acc.icons} |->
         Only([icons2 \in {IF IsStr(details_id) /\ Truthy(icon_url) THEN Store(icons1, details_id.s, icon_url) ELSE icons1} |->
         Only([names1 \in {Store(acc.names, item_id.s, name)} |->
         Only([names2 \in {IF IsStr(details_id) THEN Store(names1, details_id.s, name) ELSE names1} |->
             [items |-> Store(acc.items, item_id.s, entry), icons |-> icons2, names |-> names2]])])])])])])])])])

\* the exchange line with detailsId, name and currencyTypeName filled in from its item
AnnotatedLine(line, item_info) ==
    Only([l1 \in {IF ~Has(line, "detailsId") /\ Truthy(Get(item_info, "detailsId"))
         THEN Put(line, "detailsId", Get(item_info, "detailsId")) ELSE line} |->
    Only([l2 \in {IF ~Has(l1, "name") /\ Truthy(Get(item_info, "name")) THEN Put(l1, "name", Get(item_info, "name")) ELSE l1} |->
        IF ~Has(l2, "currencyTypeName") /\ Truthy(Get(item_info, "name"))
        THEN Put(l2, "currencyTypeName", Get(item_info, "name")) ELSE l2])])

ExchangeCopiedKeys ==
    <<"primaryValue", "secondaryValue", "volumePrimaryValue", "volumeSecondaryValue", "volume",
      "maxVolumeCurrency", "maxVolumeRate">>

\* the row built from one exchange line and the item it names
ExchangeRow(line, item_info, chaos_per_primary) ==
    Only([line_id \in {RawId(line)} |->
    Only([base \in {JObj([id |-> line_id, detailsId |-> Get(item_info, "detailsId"), name |-> Get(item_info, "name"),
               item |-> JObj([id |-> line_id, name |-> Get(item_info, "name"),
                              detailsId |-> Get(item_info, "detailsId"), icon |-> Get(item_info, "icon")])])} |->
    Only([copied \in {FoldLeft(LAMBDA row, key : IF Has(line, key) THEN Put(row, key, Get(line, key)) ELSE row,
                  base, ExchangeCopiedKeys)} |->
    Only([sparkline \in {Or(Get(line, "sparkline"), Get(line, "sparkLine"))} |->
    Only([sparked \in {IF IsDict(sparkline) THEN Put(Put(copied, "sparkLine", sparkline), "sparkline", sparkline) ELSE copied} |->
    Only([primary_value \in {ExtractFloat(Get(line, "primaryValue"))} |->
    Only([secondary_value \in {ExtractFloat(Get(line, "secondaryValue"))} |->
    Only([chaos_value \in {IF ~IsNull(chaos_per_primary) /\ ~IsNull(primary_value) THEN FMul(primary_value, chaos_per_primary)
         ELSE secondary_value} |->
    Only([rate \in {IF ~IsNull(primary_value)
         THEN JObj([chaosPerItem |-> chaos_value, divine |-> primary_value, chaosValue |-> chaos_value])
         ELSE JObj([chaosPerItem |-> chaos_value])} |->
        IF IsNull(chaos_value) THEN sparked
        ELSE Put(Put(Put(Put(Put(sparked, "chaosValue", chaos_value), "chaosEquivalent", chaos_value),
                         "valueChaos", chaos_value), "value", JObj([chaos |-> chaos_value])), "rate", rate)])])])])])])])])])

\* _prepare_exchange_rows; lines is exchange_data["lines"] as the call leaves it,
\* the matched lines are annotated in place
PrepareExchangeRows(exchange_data) ==
    Only([none \in {[rows |-> <<>>, icons |-> <<>>, names |-> <<>>, divine_rate |-> Null, data |-> exchange_data]} |->
        IF ~IsDict(exchange_data) THEN none
        ELSE IF ~IsList(Get(exchange_data, "items")) \/ ~IsList(Get(exchange_data, "lines")) THEN none
        ELSE Only([looked \in {FoldLeft(LAMBDA acc, item : ExchangeItemStep(acc, item),
                           [items |-> <<>>, icons |-> <<>>, names |-> <<>>],
                           Get(exchange_data, "items").items)} |->
             Only([core \in {Or(Get(exchange_data, "core"), EmptyObj)} |->
             Only([chaos_per_primary \in {DeriveChaosPerPrimary(core)} |->
             Only([walked \in {FoldLeft(
            LAMBDA acc, line :
                IF ~IsDict(line) \/ IsNull(RawId(line)) \/ ~Truthy(Lookup(looked.items, RawId(line)))
                THEN [acc EXCEPT !.lines = Append(@, line)]
                ELSE [rows |-> Append(acc.rows, ExchangeRow(line, Lookup(looked.items, RawId(line)),
                                                            chaos_per_primary)),
                      lines |-> Append(acc.lines, AnnotatedLine(line, Lookup(looked.items, RawId(line))))],
            [rows |-> <<>>, lines |-> <<>>], Get(exchange_data, "lines").items)} |->
                 [rows |-> walked.rows, icons |-> looked.icons, names |-> looked.names,
                  divine_rate |-> DeriveDivineRateFromCore(core, chaos_per_primary),
                  data |-> Put(exchange_data, "lines", JList(walked.lines))]])])])])])

-----------------------------------------------------------------------------
(* Entity Merger *)

\* CurrencyEntry(...): exalt_value keeps its default None
NewEntry(name, chaos_value, sparkline, trade_count, details_id, icon_url) ==
    [name |-> name, chaos_value |-> chaos_value, divine_value |-> Null, exalt_value |-> Null,
     change_percent |-> Null, sparkline |-> sparkline, trade_count |-> trade_count,
     details_id |-> details_id, icon_url |-> icon_url]

\* key in dict, for any key value
InDict(dict, key) == IsStr(key) /\ key.s \in DOMAIN dict

\* an insertion-ordered dictionary is a list of [k, v] pairs: dict[key] = value
OStore(dict, key, value) ==
    IF \E i \in 1..Len(dict) : dict[i].k = key
    THEN [i \in 1..Len(dict) |-> IF dict[i].k = key THEN [k |-> key, v |-> value] ELSE dict[i]]
    ELSE Append(dict, [k |-> key, v |-> value])

\* dict.get(key) of an insertion-ordered dictionary
OGet(dict, key) ==
    IF \E i \in 1..Len(dict) : dict[i].k = key
    THEN dict[CHOOSE i \in 1..Len(dict) : dict[i].k = key].v
    ELSE Null

\* _extract_poe2_name
ExtractPoe2Name(row, item_node, name_lookup) ==
    Only([field \in {FirstText(<<Get(row, "name"), Get(row, "currencyTypeName"), Get(row, "displayName"),
                     Get(row, "currencyName"), Get(row, "receiveCurrencyName"),
                     Get(row, "payCurrencyName"), Get(item_node, "name"),
                     Get(item_node, "displayName")>>, TRUE)} |->
    Only([details_id \in {Or(Get(row, "detailsId"), Get(item_node, "detailsId"))} |->
    Only([mapped \in {IF IsStr(details_id) /\ DOMAIN name_lookup # {} THEN Lookup(name_lookup, details_id) ELSE Null} |->
    Only([slug_source \in {Or(Get(row, "id"), details_id)} |->
        IF ~IsNull(field) THEN field
        ELSE IF Truthy(mapped) THEN mapped
        ELSE IF IsStr(slug_source) /\ HumanizeSlug(slug_source.s) # "" THEN JStr(HumanizeSlug(slug_source.s))
        ELSE JStr("Unknown")])])])])

\* the value of a "divine orb" row in _find_divine_from_items, Null when it has none
DivineValueOfItem(row) ==
    Only([rate \in {Get(row, "rate")} |->
    Only([direct \in {FirstTruthyFloat(row, <<"chaosValue", "chaosEquivalent", "valueChaos">>)} |->
    Only([chaos_per_item \in {ExtractFloat(Get(rate, "chaosPerItem"))} |->
    Only([items_per_chaos \in {ExtractFloat(Get(rate, "chaos"))} |->
    Only([primary_value \in {ExtractFloat(Get(row, "primaryValue"))} |->
        IF ~IsNull(direct) THEN direct
        ELSE IF IsDict(rate) /\ Truthy(chaos_per_item) THEN chaos_per_item
        ELSE IF IsDict(rate) /\ Truthy(items_per_chaos) /\ FGt(items_per_chaos, FZero) THEN FDiv(FOne, items_per_chaos)
        ELSE IF Truthy(primary_value) THEN primary_value
        ELSE Null])])])])])

\* _find_divine_from_items
RECURSIVE FindDivineFromItems(_)
FindDivineFromItems(items) ==
    IF Len(items) = 0 THEN Null
    ELSE Only([row \in {items[1]} |->
         Only([item_node \in {IF IsDict(Get(row, "item")) THEN Get(row, "item") ELSE EmptyObj} |->
         Only([name \in {Lower(OrChain(<<Get(item_node, "name"), Get(row, "name"), JStr("")>>).s)} |->
             IF Contains(name, "divine orb") /\ ~IsNull(DivineValueOfItem(row)) THEN DivineValueOfItem(row)
             ELSE FindDivineFromItems(Tail(items))])])])

\* _find_divine_from_overview
RECURSIVE FindDivineFromOverview(_)
FindDivineFromOverview(lines) ==
    IF Len(lines) = 0 THEN Null
    ELSE Only([line \in {lines[1]} |->
         Only([name \in {Lower(Or(Get(line, "currencyTypeName"), JStr("")).s)} |->
         Only([details_id \in {Or(Get(line, "detailsId"), JStr(""))} |->
         Only([value \in {ExtractFloat(Get(line, "chaosEquivalent"))} |->
             IF (Contains(name, "divine") \/ (IsStr(details_id) /\ Contains(details_id.s, "divine"))) /\ Truthy(value)
             THEN value
             ELSE FindDivineFromOverview(Tail(lines))])])])])

\* _infer_poe2_chaos_value
InferPoe2ChaosValue(row, divine_rate) ==
    Only([direct \in {FirstFloat(row, <<"chaosValue", "chaosEquivalent", "valueChaos", "chaos">>)} |->
    Only([rate \in {Get(row, "rate")} |->
    Only([items_per_chaos \in {ExtractFloat(Get(rate, "chaos"))} |->
    Only([chaos_per_item \in {ExtractFloat(Get(rate, "chaosPerItem"))} |->
    Only([chaos_equiv \in {ExtractFloat(Get(rate, "chaosValue"))} |->
    Only([divine_value \in {ExtractFloat(Get(rate, "divine"))} |->
    Only([primary_value \in {ExtractFloat(Get(row, "primaryValue"))} |->
    Only([value_node \in {Get(row, "value")} |->
        IF ~IsNull(direct) THEN direct
        ELSE IF IsDict(rate) /\ Truthy(items_per_chaos) /\ FGt(items_per_chaos, FZero) THEN FDiv(FOne, items_per_chaos)
        ELSE IF IsDict(rate) /\ ~IsNull(chaos_per_item) THEN chaos_per_item
        ELSE IF IsDict(rate) /\ ~IsNull(chaos_equiv) THEN chaos_equiv
        ELSE IF IsDict(rate) /\ ~IsNull(divine_value) /\ Truthy(divine_rate) THEN FMul(divine_value, divine_rate)
        ELSE IF ~IsNull(primary_value) /\ Truthy(divine_rate) THEN FMul(primary_value, divine_rate)
        ELSE IF IsDict(value_node) /\ ~IsNull(FirstFloat(value_node, <<"chaos", "chaosValue", "value">>))
             THEN FirstFloat(value_node, <<"chaos", "chaosValue", "value">>)
        ELSE ExtractFloat(value_node)])])])])])])])])

\* one line of _build_overview_lookup folded into the lookup
OverviewLookupStep(lookup, line, name_lookup, seed) ==
    LET storeAll(dict, keys) == FoldLeft(LAMBDA d, key : OStore(d, key, line), dict, keys) IN
    Only([named \in {storeAll(lookup, CollectKeys(<<Get(line, "currencyTypeName"), Get(line, "name"),
                                        Get(line, "detailsId"), Get(line, "id")>>, seed))} |->
    Only([currency_id \in {Get(line, "currencyId")} |->
    Only([withId \in {IF IsNum(currency_id) \/ IsStr(currency_id) THEN OStore(named, StrOf(currency_id), line) ELSE named} |->
    Only([details_id \in {Get(line, "detailsId")} |->
    Only([mapped_name \in {IF IsStr(details_id) THEN Lookup(name_lookup, details_id) ELSE Null} |->
        IF Truthy(mapped_name) THEN storeAll(withId, CollectKeys(<<mapped_name>>, seed)) ELSE withId])])])])])

\* _build_overview_lookup
BuildOverviewLookup(lines, name_lookup, seed) ==
    FoldLeft(LAMBDA lookup, line : OverviewLookupStep(lookup, line, name_lookup, seed), <<>>, lines)

\* the trade count _update_entry_from_overview takes from the volume fields
RECURSIVE VolumeCount(_, _)
VolumeCount(line, names) ==
    IF Len(names) = 0 THEN Null
    ELSE IF Truthy(ExtractFloat(Get(line, names[1]))) THEN RoundInt(ExtractFloat(Get(line, names[1])))
    ELSE VolumeCount(line, Tail(names))

\* totalChange of the first spark line that has a non-zero one
TotalChange(node, names) ==
    OrChain([i \in 1..Len(names) |-> ExtractFloat(Get(GetOrEmpty(node, names[i]), "totalChange"))])

\* the first non-empty series among the named spark lines
SeriesOf(node, names) == OrChain([i \in 1..Len(names) |-> ExtractSparkline(Get(node, names[i]))])

\* _update_entry_from_overview
UpdateEntryFromOverview(entry, overview_line, icon_lookup, name_lookup, divine_rate) ==
    Only([chaos_equiv \in {ComputeChaosFromLine(overview_line, divine_rate)} |->
    Only([change_percent \in {TotalChange(overview_line, <<"receiveSparkLine", "paySparkLine", "sparkLine">>)} |->
    Only([sparkline \in {SeriesOf(overview_line, <<"receiveSparkLine", "paySparkLine", "sparkLine">>)} |->
    Only([trade_count \in {OrChain(<<ExtractTradeCount(Get(overview_line, "receive")),
                   ExtractTradeCount(Get(overview_line, "pay")),
                   ExtractTradeCount(overview_line)>>)} |->
    Only([volume \in {VolumeCount(overview_line, <<"volumePrimaryValue", "volumeSecondaryValue", "volume">>)} |->
    Only([details_id \in {Get(overview_line, "detailsId")} |->
    Only([mapped_name \in {Lookup(name_lookup, details_id)} |->
    Only([e1 \in {[entry EXCEPT
            !.chaos_value = IF ~IsNull(chaos_equiv) THEN chaos_equiv ELSE @,
            !.change_percent = IF ~IsNull(change_percent) THEN change_percent ELSE @,
            !.sparkline = IF Truthy(sparkline) THEN sparkline ELSE @,
            !.trade_count = IF Truthy(trade_count) THEN trade_count
                            ELSE IF ~IsNull(volume) THEN volume ELSE @]} |->
    Only([e2 \in {IF ~IsStr(details_id) THEN e1
         ELSE [e1 EXCEPT
                 !.details_id = Or(@, details_id),
                 !.icon_url = IF IsNull(@) THEN Lookup(icon_lookup, details_id) ELSE @,
                 !.name = IF Truthy(mapped_name) THEN mapped_name ELSE @]} |->
        IF IsNull(e2.icon_url) /\ InDict(icon_lookup, e2.name)
        THEN [e2 EXCEPT !.icon_url = Lookup(icon_lookup, e2.name)] ELSE e2])])])])])])])])])

\* entry.divine_value = entry.chaos_value / divine_rate when the rate is positive and the value non-zero
WithDivine(entry, divine_rate) ==
    IF Truthy(divine_rate) /\ FGt(divine_rate, FZero) /\ Truthy(entry.chaos_value)
    THEN [entry EXCEPT !.divine_value = FDiv(entry.chaos_value, divine_rate)] ELSE entry

\* the first truthy overview line found under the keys, in the given order
RECURSIVE FirstOverviewLine(_, _)
FirstOverviewLine(overview_lookup, keys) ==
    IF Len(keys) = 0 THEN Null
    ELSE IF Truthy(OGet(overview_lookup, keys[1])) THEN OGet(overview_lookup, keys[1])
    ELSE IF Len(keys) = 1 THEN OGet(overview_lookup, keys[1])
    ELSE FirstOverviewLine(overview_lookup, Tail(keys))

\* the entry _merge_poe2_data builds from one item row
MergedEntry(row, overview_lookup, icon_lookup, name_lookup, divine_rate, seed) ==
    Only([item_node \in {IF IsDict(Get(row, "item")) THEN Get(row, "item")
         ELSE IF IsDict(Get(row, "currency")) THEN Get(row, "currency") ELSE EmptyObj} |->
    Only([name \in {ExtractPoe2Name(row, item_node, name_lookup)} |->
    Only([chaos_value \in {InferPoe2ChaosValue(row, divine_rate)} |->
    Only([details_id \in {InferDetailsId(row, item_node)} |->
    Only([currency_id \in {InferCurrencyId(row, item_node)} |->
    Only([icon0 \in {Get(item_node, "icon")} |->
    Only([icon1 \in {IF IsNull(icon0) /\ InDict(icon_lookup, details_id) THEN Lookup(icon_lookup, details_id) ELSE icon0} |->
    Only([icon \in {IF IsNull(icon1) /\ InDict(icon_lookup, name) THEN Lookup(icon_lookup, name) ELSE icon1} |->
    Only([entry \in {WithDivine(NewEntry(name, Or(chaos_value, FZero),
                             Or(ExtractSparkline(Get(row, "sparkLine")), ExtractSparkline(Get(row, "sparkline"))),
                             Or(ExtractTradeCount(row), ExtractTradeCount(Get(row, "listing"))),
                             details_id, icon), divine_rate)} |->
    Only([keys \in {SetIter(CollectKeys(<<name, details_id, currency_id, Get(row, "detailsId"), Get(row, "id")>>, seed), seed)} |->
    Only([overview_line \in {FirstOverviewLine(overview_lookup, keys)} |->
        IF Truthy(overview_line)
        THEN UpdateEntryFromOverview(entry, overview_line, icon_lookup, name_lookup, divine_rate)
        ELSE entry])])])])])])])])])])])

\* _merge_poe2_data
MergePoe2Data(items, overview_lookup, icon_lookup, name_lookup, divine_rate, seed) ==
    [i \in 1..Len(items) |-> MergedEntry(items[i], overview_lookup, icon_lookup, name_lookup, divine_rate, seed)]

\* the set of keys of the entries' names and details ids
EntryKeys(entry, seed) ==
    Only([keys \in {CollectKeys(<<entry.name, entry.details_id>>, seed)} |-> {keys[i] : i \in 1..Len(keys)}])

\* one value of overview_lookup.values() handled by _add_unmatched_overview_entries
UnmatchedStep(acc, line, icon_lookup, name_lookup, divine_rate, seed) ==
    Only([name_candidates \in {CollectKeys(<<Get(line, "currencyTypeName"), Get(line, "name"),
                       Get(line, "detailsId"), Get(line, "id")>>, seed)} |->
        IF \E i \in 1..Len(name_candidates) : name_candidates[i] \in acc.existing_keys THEN acc
        ELSE Only([created \in {NewEntry(OrChain(<<Get(line, "currencyTypeName"), Get(line, "name"), JStr("Unknown")>>),
                                         ComputeChaosFromLine(line, divine_rate), JList(<<>>), Null,
                                         Get(line, "detailsId"), Null)} |->
             Only([entry \in {WithDivine(UpdateEntryFromOverview(created, line, icon_lookup, name_lookup,
                                                                 divine_rate), divine_rate)} |->
                 [entries |-> Append(acc.entries, entry),
                  existing_keys |-> acc.existing_keys \cup EntryKeys(entry, seed)]])])])

\* _add_unmatched_overview_entries: the entries list as the call leaves it
AddUnmatchedOverviewEntries(entries, overview_lookup, icon_lookup, name_lookup, divine_rate, seed) ==
    FoldLeft(LAMBDA acc, pair : UnmatchedStep(acc, pair.v, icon_lookup, name_lookup, divine_rate, seed),
             [entries |-> entries, existing_keys |-> UNION {EntryKeys(entries[i], seed) : i \in 1..Len(entries)}],
             overview_lookup).entries

-----------------------------------------------------------------------------
(* Deduplicator, Derived Ratio Calculator and the ordering *)

\* a comparison of chaos values raises TypeError when one of them is None
Comparable(a, b) == ~IsNull(a) /\ ~IsNull(b)

MergeEntryAttributesKeepingValue(target, source) ==
    [target EXCEPT
       !.divine_value = IF ~IsNull(source.divine_value) /\ (IsNull(@) \/ FGt(source.divine_value, @))
                        THEN source.divine_value ELSE @,
       !.sparkline = IF ~Truthy(@) /\ Truthy(source.sparkline) THEN source.sparkline ELSE @,
       !.trade_count = IF ~Truthy(@) /\ Truthy(source.trade_count) THEN source.trade_count ELSE @,
       !.change_percent = IF IsNull(@) /\ ~IsNull(source.change_percent) THEN source.change_percent ELSE @,
       !.icon_url = IF ~Truthy(@) /\ Truthy(source.icon_url) THEN source.icon_url ELSE @]
\* _merge_entry_attributes: the target as the call leaves it
MergeEntryAttributes(target, source) ==
    [target EXCEPT
       !.chaos_value = IF FGt(source.chaos_value, @) THEN source.chaos_value ELSE @,
       !.divine_value = IF ~IsNull(source.divine_value) /\ (IsNull(@) \/ FGt(source.divine_value, @))
                        THEN source.divine_value ELSE @,
       !.sparkline = IF ~Truthy(@) /\ Truthy(source.sparkline) THEN source.sparkline ELSE @,
       !.trade_count = IF ~Truthy(@) /\ Truthy(source.trade_count) THEN source.trade_count ELSE @,
       !.change_percent = IF IsNull(@) /\ ~IsNull(source.change_percent) THEN source.change_percent ELSE @,
       !.icon_url = IF ~Truthy(@) /\ Truthy(source.icon_url) THEN source.icon_url ELSE @]

\* the owner registered under the first of the keys that has one; 0 when none has
RECURSIVE OwnerOf(_, _)
OwnerOf(key_to_entry, keys) ==
    IF Len(keys) = 0 THEN 0
    ELSE IF keys[1] \in DOMAIN key_to_entry THEN key_to_entry[keys[1]]
    ELSE OwnerOf(key_to_entry, Tail(keys))

\* key_to_entry.setdefault(key, owner) for every non-empty key
Registered(key_to_entry, keys, owner) ==
    FoldLeft(LAMBDA m, key : IF key # "" /\ key \notin DOMAIN m THEN Store(m, key, owner) ELSE m, key_to_entry, keys)

\* one entry of _deduplicate_entries; entries are referred to by their position
\* in the input list, exc names the exception raised by a merge
DedupStep(acc, i, seed) ==
    Only([entry \in {acc.entries[i]} |->
    Only([keys \in {CollectKeys(<<entry.details_id, entry.name>>, seed)} |->
    Only([found \in {OwnerOf(acc.key_to_entry, keys)} |->
    Only([registered \in {Registered(acc.key_to_entry, IF Len(keys) > 0 THEN keys ELSE <<Lower(Strip(entry.name.s))>>,
                    IF found = 0 THEN i ELSE found)} |->
        IF acc.exc # "none" THEN acc
        ELSE IF found = 0
             THEN [acc EXCEPT !.ordered = Append(@, i), !.key_to_entry = registered, !.owners = Append(@, i)]
        ELSE IF ~Comparable(entry.chaos_value, acc.entries[found].chaos_value)
             THEN [acc EXCEPT !.exc = "TypeError"]
        ELSE [acc EXCEPT !.entries[found] = MergeEntryAttributes(@, entry), !.key_to_entry = registered,
                         !.owners = Append(@, found)]])])])])

DedupRun(entries, seed) ==
    FoldLeft(LAMBDA acc, i : DedupStep(acc, i, seed),
             [entries |-> entries, ordered |-> <<>>, key_to_entry |-> <<>>, owners |-> <<>>, exc |-> "none"],
             [i \in 1..Len(entries) |-> i])

OrderedOfPrepending(run) == [i \in 1..Len(run.ordered) |-> run.entries[run.ordered[Len(run.ordered) + 1 - i]]]
\* the list ordered of a run of _deduplicate_entries
OrderedOf(run) == [i \in 1..Len(run.ordered) |-> run.entries[run.ordered[i]]]

\* _deduplicate_entries: the returned list
DeduplicateEntries(entries, seed) == OrderedOf(DedupRun(entries, seed))

\* the prices the first loop of _apply_exalted_values collects
ExactExaltCandidates(entries) ==
    SelectSeq(entries,
              LAMBDA e : Only([name \in {Lower(e.name.s)} |->
                         Only([details \in {Lower(Or(e.details_id, JStr("")).s)} |->
                             IF Contains(name, "exalted orb") /\ ~Contains(name, "perfect") /\ ~Contains(name, "greater")
                             THEN FGt(e.chaos_value, FZero)
                             ELSE details = "exalted-orb" /\ FGt(e.chaos_value, FZero)])]))

\* the candidate prices of _apply_exalted_values
ExaltCandidates(entries) ==
    Only([exact \in {ExactExaltCandidates(entries)} |->
    Only([loose \in {SelectSeq(entries, LAMBDA e : Contains(Lower(e.name.s), "exalt") /\ FGt(e.chaos_value, FZero))} |->
        IF Len(exact) > 0 THEN [i \in 1..Len(exact) |-> exact[i].chaos_value]
        ELSE [i \in 1..Len(loose) |-> loose[i].chaos_value]])])

\* min(candidates)
MinOf(values) == FoldLeft(LAMBDA m, v : IF FGt(m, v) THEN v ELSE m, values[1], Tail(values))

\* exalt_price of _apply_exalted_values, Null when no price is resolved
ExaltPrice(entries) ==
    Only([candidates \in {ExaltCandidates(entries)} |->
        IF Len(candidates) = 0 THEN Null
        ELSE IF ~Truthy(MinOf(candidates)) \/ ~FGt(MinOf(candidates), FZero) THEN Null
        ELSE MinOf(candidates)])

ExaltStampOnAll(entry, exalt_price) == [entry EXCEPT !.exalt_value = FDiv(entry.chaos_value, exalt_price)]
\* the value _apply_exalted_values stamps on one entry
ExaltStamp(entry, exalt_price) ==
    [entry EXCEPT !.exalt_value = IF Truthy(entry.chaos_value) THEN FDiv(entry.chaos_value, exalt_price) ELSE Null]

\* _apply_exalted_values: the entries as the call leaves them
ApplyExaltedValues(entries) ==
    IF IsNull(ExaltPrice(entries)) THEN entries
    ELSE [i \in 1..Len(entries) |-> ExaltStamp(entries[i], ExaltPrice(entries))]

InsertBeforeEqual(sorted, entry) ==
    Only([k \in {Cardinality({j \in 1..Len(sorted) : FGt(sorted[j].chaos_value, entry.chaos_value)})} |->
        SubSeq(sorted, 1, k) \o <<entry>> \o SubSeq(sorted, k + 1, Len(sorted))])
\* the position at which a stable descending sort places entry behind the sorted prefix
InsertDescending(sorted, entry) ==
    Only([k \in {Cardinality({j \in 1..Len(sorted) : ~FGt(entry.chaos_value, sorted[j].chaos_value)})} |->
        SubSeq(sorted, 1, k) \o <<entry>> \o SubSeq(sorted, k + 1, Len(sorted))])

\* entries.sort(key=lambda item: item.chaos_value, reverse=True)
SortDescending(entries) == FoldLeft(LAMBDA sorted, entry : InsertDescending(sorted, entry), <<>>, entries)

\* the sort compares keys: it raises TypeError on a list of two or more entries one of which has no value
SortRaises(entries) == Len(entries) >= 2 /\ \E i \in 1..Len(entries) : IsNull(entries[i].chaos_value)

\* the stamping of divine_value after the deduplication
StampDivine(entries, divine_rate) ==
    IF Truthy(divine_rate) /\ FGt(divine_rate, FZero)
    THEN [i \in 1..Len(entries) |->
            [entries[i] EXCEPT !.divine_value = IF Truthy(entries[i].chaos_value)
                                                THEN FDiv(entries[i].chaos_value, divine_rate) ELSE Null]]
    ELSE entries

-----------------------------------------------------------------------------
(* Exchange Overlay *)

\* the number of entities whose detail page is requested
MAX_DETAIL_ENTRIES == 50

\* the two revisions of each exchange endpoint, in the declared order
POE2_EXCHANGE_OVERVIEW_ENDPOINTS == <<"exchange/current/overview", "currencyexchange/overview">>
POE2_EXCHANGE_DETAILS_ENDPOINTS == <<"exchange/current/details", "currencyexchange/details">>

\* a response is a parsed JSON body, or one of the two failures of a request
TransportFailure == [t |-> "fail"]
Unparseable == [t |-> "garbage"]

ExchangePayloadOfEmpty(response) ==
    IF response.t \in {"fail", "garbage"} THEN Null
    ELSE IF ~IsDict(response) THEN Null
    ELSE IF IsDict(Get(response, "payload")) /\ Truthy(Get(response, "payload")) THEN Get(response, "payload")
    ELSE response
\* the payload one candidate endpoint of an exchange source yields; Null when
\* the loop moves on to the next candidate (api.py: `continue`)
ExchangePayload(response) ==
    IF response.t \in {"fail", "garbage"} THEN Null
    ELSE IF ~IsDict(response) \/ ~Truthy(response) THEN Null
    ELSE IF IsDict(Get(response, "payload")) /\ Truthy(Get(response, "payload")) THEN Get(response, "payload")
    ELSE response

\* exchange details: a server that is down, one that answers on the first
\* endpoint, one that answers on the second only
DetailServers == {"down", "up", "second"}

DetailBody(item_id) ==
    IF item_id = JStr("exalted-orb")
    THEN JObj([line |-> JObj([primaryValue |-> JFloat(2, 3)]), name |-> JStr(" Exalted Orb "),
               totalVolume |-> JInt(7)])
    ELSE EmptyObj

\* a detail page whose trend is empty and whose volume rounds to nothing
TrendBody ==
    JObj([receiveSparkLine |-> JObj([totalChange |-> JInt(0), data |-> JList(<<>>)]), history |-> JList(<<>>),
          totalVolume |-> JFloat(2, 5), icon |-> JStr("/img/detail.png")])

DetailResponse(server, item_id, endpoint) ==
    CASE server = "down" -> TransportFailure
      [] server = "trend" -> IF endpoint = 1 THEN TrendBody ELSE Unparseable
      [] server = "up" -> IF endpoint = 1 THEN DetailBody(item_id) ELSE Unparseable
      [] server = "second" -> IF endpoint = 1 THEN JList(<<>>) ELSE JObj([payload |-> DetailBody(item_id)])

\* one item id of _fetch_poe2_exchange_details: the payload of the first
\* endpoint that yields one; DetailResponse is the response to a request
RECURSIVE DetailOf(_, _, _)
DetailOf(server, item_id, endpoint) ==
    IF endpoint > Len(POE2_EXCHANGE_DETAILS_ENDPOINTS) THEN Null
    ELSE IF ~IsNull(ExchangePayload(DetailResponse(server, item_id, endpoint))) THEN ExchangePayload(DetailResponse(server, item_id, endpoint))
    ELSE DetailOf(server, item_id, endpoint + 1)

\* _fetch_poe2_exchange_details
FetchPoe2ExchangeDetails(server, ids) ==
    FoldLeft(LAMBDA details, index :
                 IF index - 1 >= MAX_DETAIL_ENTRIES \/ IsNull(DetailOf(server, ids[index], 1)) THEN details
                 ELSE Store(details, ids[index].s, DetailOf(server, ids[index], 1)),
             <<>>, [i \in 1..Len(ids) |-> i])

\* _update_entry_from_exchange_detail
UpdateEntryFromExchangeDetail(entry, detail, icon_lookup, name_lookup, divine_rate) ==
    Only([detail_line \in {Get(detail, "line")} |->
    Only([chaos_value \in {ComputeExchangeChaosValue(detail_line, divine_rate)} |->
    Only([line_count \in {OrChain(<<ExtractTradeCount(detail_line), ExtractTradeCount(Get(detail_line, "receive")),
                   ExtractTradeCount(Get(detail_line, "pay"))>>)} |->
    Only([e1 \in {IF ~IsDict(detail_line) THEN entry
         ELSE [entry EXCEPT !.chaos_value = IF ~IsNull(chaos_value) THEN chaos_value ELSE @,
                            !.trade_count = IF Truthy(line_count) THEN line_count ELSE @]} |->
    Only([change_percent \in {OrChain(<<ExtractFloat(Get(GetOrEmpty(detail, "receiveSparkLine"), "totalChange")),
                   ExtractFloat(Get(GetOrEmpty(detail, "paySparkLine"), "totalChange")),
                   ExtractFloat(Get(GetOrEmpty(detail, "sparkLine"), "totalChange")),
                   ExtractFloat(Get(detail, "totalChange"))>>)} |->
    Only([sparkline \in {OrChain(<<ExtractSparkline(Get(detail, "sparkLine")),
                   ExtractSparkline(Get(detail, "receiveSparkLine")),
                   ExtractSparkline(Get(detail, "paySparkLine")),
                   ExtractHistorySeries(Get(detail, "history"))>>)} |->
    Only([volume \in {OrChain(<<ExtractTradeCount(Get(detail, "history")), ExtractFloat(Get(detail, "totalVolume")),
                   ExtractFloat(Get(detail, "volume"))>>)} |->
    Only([detail_icon \in {Get(detail, "icon")} |->
    Only([name \in {Get(detail, "name")} |->
    Only([e2 \in {[e1 EXCEPT
            !.change_percent = IF ~IsNull(change_percent) THEN change_percent ELSE @,
            !.sparkline = IF Truthy(sparkline) THEN sparkline ELSE @,
            !.trade_count = IF ~Truthy(@) /\ Truthy(volume) THEN RoundInt(volume) ELSE @,
            !.icon_url = IF IsStr(detail_icon) /\ Truthy(detail_icon) /\ ~Truthy(@) THEN detail_icon ELSE @,
            !.name = IF IsStr(name) /\ Strip(name.s) # "" THEN JStr(Strip(name.s)) ELSE @]} |->
    Only([e3 \in {[e2 EXCEPT
            !.icon_url = IF Truthy(e2.details_id) /\ ~Truthy(@) THEN Lookup(icon_lookup, e2.details_id) ELSE @,
            !.name = IF Truthy(e2.details_id) /\ @ = JStr("Unknown") /\ Truthy(Lookup(name_lookup, e2.details_id))
                     THEN Lookup(name_lookup, e2.details_id) ELSE @]} |->
        IF ~IsDict(detail) THEN entry
        ELSE IF Truthy(divine_rate) /\ Truthy(e3.chaos_value)
             THEN [e3 EXCEPT !.divine_value = FDiv(e3.chaos_value, divine_rate)]
        ELSE e3])])])])])])])])])])])

\* the index of the entry registered under the first of the keys that has one; 0 when none has
TargetOf(entry_lookup, keys) == OwnerOf(entry_lookup, keys)

\* the entry the overlay creates for an exchange line no entry matches
SynthesizedEntry(line, icon_lookup, name_lookup) ==
    Only([slug \in {OrChain(<<Get(line, "id"), Get(line, "detailsId"), JStr("")>>)} |->
    Only([name \in {OrChain(<<Get(line, "name"), Lookup(name_lookup, slug), JStr(HumanizeSlug(slug.s)), JStr("Unknown")>>)} |->
        NewEntry(name, FZero, JList(<<>>), Null, IF Truthy(slug) THEN slug ELSE Null, Lookup(icon_lookup, slug))])])

\* the fields one exchange line writes on its target entry
OverlaidEntry(entry, line, chaos_per_primary, divine_rate_from_core, icon_lookup) ==
    Only([chaos_value \in {ComputeExchangeChaosValue(line, chaos_per_primary)} |->
    Only([change_percent \in {Or(ExtractFloat(Get(line, "change")),
            ExtractFloat(Get(GetOrEmpty(line, "sparkLine"), "totalChange")))} |->
    Only([sparkline \in {SeriesOf(line, <<"sparkLine", "receiveSparkLine", "paySparkLine">>)} |->
    Only([trade_count \in {OrChain(<<ExtractTradeCount(line), ExtractTradeCount(Get(line, "receive")),
                   ExtractTradeCount(Get(line, "pay"))>>)} |->
    Only([volume \in {OrChain(<<ExtractFloat(Get(line, "volume")), ExtractFloat(Get(line, "volumePrimaryValue")),
                   ExtractFloat(Get(line, "volumeSecondaryValue"))>>)} |->
    Only([slug \in {Or(Get(line, "id"), Get(line, "detailsId"))} |->
    Only([e1 \in {IF IsNull(chaos_value) THEN entry
         ELSE [entry EXCEPT
                 !.chaos_value = chaos_value,
                 !.divine_value = IF ~Truthy(divine_rate_from_core) THEN @
                                  ELSE IF Truthy(chaos_value) THEN FDiv(chaos_value, divine_rate_from_core)
                                  ELSE Null]} |->
    Only([e2 \in {[e1 EXCEPT
            !.change_percent = IF ~IsNull(change_percent) THEN change_percent ELSE @,
            !.sparkline = IF Truthy(sparkline) THEN sparkline ELSE @,
            !.trade_count = IF Truthy(trade_count) THEN trade_count
                            ELSE IF Truthy(volume) THEN RoundInt(volume) ELSE @,
            !.details_id = IF Truthy(slug) /\ ~Truthy(@) THEN slug ELSE @]} |->
        [e2 EXCEPT !.icon_url = IF Truthy(slug) /\ ~Truthy(@) THEN Lookup(icon_lookup, slug) ELSE @]])])])])])])])])

\* one exchange line of _apply_exchange_overview_data
OverlayStep(acc, line, chaos_per_primary, divine_rate_from_core, icon_lookup, name_lookup, seed) ==
    Only([line_keys \in {CollectKeys(<<Get(line, "id"), Get(line, "detailsId"), Get(line, "name")>>, seed)} |->
    Only([found \in {TargetOf(acc.entry_lookup, line_keys)} |->
    Only([target \in {IF found = 0 THEN Len(acc.entries) + 1 ELSE found} |->
    Only([entries \in {IF found = 0 THEN Append(acc.entries, SynthesizedEntry(line, icon_lookup, name_lookup))
         ELSE acc.entries} |->
    Only([lookup \in {IF found = 0 THEN Registered(acc.entry_lookup, line_keys, target) ELSE acc.entry_lookup} |->
        [entries |-> [entries EXCEPT ![target] = OverlaidEntry(@, line, chaos_per_primary,
                                                               divine_rate_from_core, icon_lookup)],
         entry_lookup |-> lookup]])])])])])

\* the entries after the walk over the exchange lines, before the detail fetch
OverlaidEntries(entries, exchange_data, icon_lookup, name_lookup, seed) ==
    Only([core \in {Or(Get(exchange_data, "core"), EmptyObj)} |->
    Only([chaos_per_primary \in {DeriveChaosPerPrimary(core)} |->
    Only([divine_rate_from_core \in {DeriveDivineRateFromCore(core, chaos_per_primary)} |->
    Only([stamped \in {IF ~Truthy(divine_rate_from_core) THEN entries
         ELSE [i \in 1..Len(entries) |->
                 IF Truthy(entries[i].chaos_value)
                 THEN [entries[i] EXCEPT !.divine_value = FDiv(entries[i].chaos_value, divine_rate_from_core)]
                 ELSE entries[i]]} |->
    Only([entry_lookup \in {FoldLeft(LAMBDA m, i : Registered(m, CollectKeys(<<stamped[i].details_id, stamped[i].name>>, seed), i),
                  <<>>, [i \in 1..Len(stamped) |-> i])} |->
        FoldLeft(LAMBDA acc, line : OverlayStep(acc, line, chaos_per_primary, divine_rate_from_core,
                                                icon_lookup, name_lookup, seed),
                 [entries |-> stamped, entry_lookup |-> entry_lookup],
                 Get(exchange_data, "lines").items).entries])])])])])

\* the ids whose detail page _apply_exchange_overview_data requests
DetailIds(entries) ==
    Only([head \in {SubSeq(entries, 1, IF Len(entries) < MAX_DETAIL_ENTRIES THEN Len(entries) ELSE MAX_DETAIL_ENTRIES)} |->
    Only([kept \in {SelectSeq(head, LAMBDA e : Truthy(e.details_id))} |->
        [i \in 1..Len(kept) |-> kept[i].details_id]])])

ApplyExchangeOverviewDataAfresh(entries, exchange_data, icon_lookup, name_lookup, server, seed) ==
    IF ~Truthy(exchange_data) \/ ~IsList(Get(exchange_data, "lines")) THEN entries
    ELSE Only([overlaid \in {OverlaidEntries(entries, exchange_data, icon_lookup, name_lookup, seed)} |->
         Only([core \in {Or(Get(exchange_data, "core"), EmptyObj)} |->
         Only([divine_rate_from_core \in {DeriveDivineRateFromCore(core, DeriveChaosPerPrimary(core))} |->
         Only([detail_data \in {FetchPoe2ExchangeDetails(server, DetailIds(overlaid))} |->
             [i \in 1..Len(overlaid) |->
                IF Truthy(overlaid[i].details_id) /\ Truthy(Lookup(detail_data, overlaid[i].details_id))
                THEN UpdateEntryFromExchangeDetail(
                         [overlaid[i] EXCEPT !.sparkline = JList(<<>>), !.trade_count = Null, !.change_percent = Null],
                         Lookup(detail_data, overlaid[i].details_id), icon_lookup, name_lookup, divine_rate_from_core)
                ELSE overlaid[i]]])])])])
\* _apply_exchange_overview_data: the entries list as the call leaves it
ApplyExchangeOverviewData(entries, exchange_data, icon_lookup, name_lookup, server, seed) ==
    IF ~Truthy(exchange_data) \/ ~IsList(Get(exchange_data, "lines")) THEN entries
    ELSE Only([overlaid \in {OverlaidEntries(entries, exchange_data, icon_lookup, name_lookup, seed)} |->
         Only([core \in {Or(Get(exchange_data, "core"), EmptyObj)} |->
         Only([divine_rate_from_core \in {DeriveDivineRateFromCore(core, DeriveChaosPerPrimary(core))} |->
         Only([detail_data \in {FetchPoe2ExchangeDetails(server, DetailIds(overlaid))} |->
             [i \in 1..Len(overlaid) |->
                IF Truthy(overlaid[i].details_id) /\ Truthy(Lookup(detail_data, overlaid[i].details_id))
                THEN UpdateEntryFromExchangeDetail(overlaid[i], Lookup(detail_data, overlaid[i].details_id),
                                                   icon_lookup, name_lookup, divine_rate_from_core)
                ELSE overlaid[i]]])])])])

-----------------------------------------------------------------------------
(* The legacy overview *)

\* _infer_currency_name
InferCurrencyName(line, name_lookup) ==
    Only([receive_name \in {Or(Get(line, "receiveCurrencyName"), Get(line, "receiveCurrencyTypeName"))} |->
    Only([pay_name \in {Or(Get(line, "payCurrencyName"), Get(line, "payCurrencyTypeName"))} |->
    Only([field \in {FirstText(<<Get(line, "currencyTypeName"), Get(line, "name"), Get(line, "displayName"),
                     Get(line, "itemName"), Get(line, "currencyName"), Get(line, "receiveCurrencyName"),
                     Get(line, "payCurrencyName"), Get(line, "receiveCurrencyTypeName"),
                     Get(line, "payCurrencyTypeName"), Get(line, "typeName")>>, FALSE)} |->
    Only([currency_node \in {ExtractCurrencyNode(line)} |->
    Only([node_name \in {IF IsDict(currency_node)
         THEN FirstStr(currency_node, <<"name", "displayName", "typeName", "currencyTypeName">>) ELSE Null} |->
    Only([by_details \in {IF IsStr(Get(line, "detailsId")) THEN Lookup(name_lookup, Get(line, "detailsId")) ELSE Null} |->
    Only([by_node \in {IF IsDict(currency_node) /\ IsStr(Get(currency_node, "detailsId"))
         THEN Lookup(name_lookup, Get(currency_node, "detailsId")) ELSE Null} |->
    Only([by_id \in {Lookup(name_lookup, InferCurrencyId(line, currency_node))} |->
        IF IsStr(receive_name) /\ IsStr(pay_name) THEN JStr(receive_name.s \o " for " \o pay_name.s)
        ELSE IF ~IsNull(field) THEN field
        ELSE IF ~IsNull(node_name) THEN node_name
        ELSE IF Truthy(by_details) THEN by_details
        ELSE IF Truthy(by_node) THEN by_node
        ELSE IF Truthy(by_id) THEN by_id
        ELSE JStr("Unknown")])])])])])])])])

\* _infer_chaos_value
InferChaosValue(line) ==
    Only([direct \in {FirstFloat(line, <<"chaosEquivalent", "chaosValue", "valueChaos", "value">>)} |->
    Only([receive \in {OrChain(<<Get(line, "receive"), Get(line, "receiveListing"), Get(line, "receiveCurrency")>>)} |->
    Only([pay \in {Get(line, "pay")} |->
    Only([value_node \in {Get(line, "value")} |->
    Only([nested \in {<<"value", "valueChaos", "chaosEquivalent", "chaosValue">>} |->
        IF ~IsNull(direct) THEN direct
        ELSE IF IsDict(receive) /\ ~IsNull(FirstFloat(receive, nested)) THEN FirstFloat(receive, nested)
        ELSE IF IsDict(pay) /\ ~IsNull(FirstFloat(pay, nested)) THEN FirstFloat(pay, nested)
        ELSE IF IsDict(value_node) /\ ~IsNull(FirstFloat(value_node, <<"chaos", "chaosValue", "value">>))
             THEN FirstFloat(value_node, <<"chaos", "chaosValue", "value">>)
        ELSE FZero])])])])])

\* _find_divine_chaos_value
RECURSIVE FindDivineChaosValue(_)
FindDivineChaosValue(lines) ==
    IF Len(lines) = 0 THEN Null
    ELSE Only([line \in {lines[1]} |->
         Only([currency_node \in {ExtractCurrencyNode(line)} |->
         Only([node_name \in {IF IsDict(currency_node) THEN Get(currency_node, "name") ELSE Null} |->
         Only([node_details \in {IF IsDict(currency_node) THEN Get(currency_node, "detailsId") ELSE Null} |->
         Only([details_id \in {Get(line, "detailsId")} |->
             IF \/ Get(line, "currencyTypeName") = JStr("Divine Orb")
                \/ node_name = JStr("Divine Orb")
                \/ (IsStr(details_id) /\ Contains(details_id.s, "divine"))
                \/ (IsStr(node_details) /\ Contains(node_details.s, "divine"))
             THEN ExtractFloat(Get(line, "chaosEquivalent"))
             ELSE FindDivineChaosValue(Tail(lines))])])])])])

\* the entry _parse_currency_lines builds from one line
ParsedEntry(line, divine_chaos_value, icon_lookup, name_lookup) ==
    Only([name \in {InferCurrencyName(line, name_lookup)} |->
    Only([chaos_value \in {InferChaosValue(line)} |->
    Only([receive_spark \in {Get(line, "receiveSparkLine")} |->
    Only([pay_spark \in {Get(line, "paySparkLine")} |->
    Only([generic_spark \in {Or(Get(line, "sparkLine"), Get(line, "sparkline"))} |->
    Only([change1 \in {IF IsDict(receive_spark) THEN ExtractFloat(Get(receive_spark, "totalChange")) ELSE Null} |->
    Only([change2 \in {IF IsNull(change1) /\ IsDict(pay_spark) THEN ExtractFloat(Get(pay_spark, "totalChange")) ELSE change1} |->
    Only([change_percent \in {IF IsNull(change2) /\ IsDict(generic_spark)
         THEN ExtractFloat(Get(generic_spark, "totalChange")) ELSE change2} |->
    Only([sparkline \in {OrChain(<<ExtractSparkline(receive_spark), ExtractSparkline(pay_spark),
                   ExtractSparkline(Get(line, "sparkLine"))>>)} |->
    Only([trade_count \in {OrChain(<<ExtractTradeCount(Get(line, "receive")), ExtractTradeCount(Get(line, "pay")),
                   ExtractTradeCount(line)>>)} |->
    Only([currency_node \in {ExtractCurrencyNode(line)} |->
    Only([details_id \in {InferDetailsId(line, currency_node)} |->
    Only([currency_id \in {InferCurrencyId(line, currency_node)} |->
    Only([icon1 \in {Lookup(icon_lookup, name)} |->
    Only([icon2 \in {IF IsNull(icon1) /\ IsStr(details_id) THEN Lookup(icon_lookup, details_id) ELSE icon1} |->
    Only([icon3 \in {IF IsNull(icon2) /\ IsStr(currency_id) THEN Lookup(icon_lookup, currency_id) ELSE icon2} |->
    Only([icon \in {IF IsNull(icon3) /\ IsDict(currency_node) THEN Get(currency_node, "icon") ELSE icon3} |->
        [name |-> name, chaos_value |-> chaos_value,
         divine_value |-> IF Truthy(divine_chaos_value) /\ FGt(divine_chaos_value, FZero)
                          THEN FDiv(chaos_value, divine_chaos_value) ELSE Null,
         exalt_value |-> Null, change_percent |-> change_percent, sparkline |-> sparkline,
         trade_count |-> trade_count, details_id |-> IF IsStr(details_id) THEN details_id ELSE Null,
         icon_url |-> icon]])])])])])])])])])])])])])])])])])

\* _parse_currency_lines
ParseCurrencyLines(lines, divine_chaos_value, icon_lookup, name_lookup) ==
    [i \in 1..Len(lines) |-> ParsedEntry(lines[i], divine_chaos_value, icon_lookup, name_lookup)]

\* the metadata records of a payload as a list
DetailsList(working) ==
    Only([currency_details \in {OrChain(<<Get(working, "currencyDetails"), Get(working, "currencyDetailsMap"),
                   Get(working, "currencyData"), Get(working, "details")>>)} |->
        IF IsDict(currency_details) THEN ValuesOf(currency_details.f, DOMAIN currency_details.f)
        ELSE IF IsList(currency_details) THEN currency_details.items
        ELSE <<>>])

\* the lines _parse_snapshot_payload reads; Null when the payload has no list of lines
LegacyLines(raw_data) ==
    Only([working \in {IF IsDict(Get(raw_data, "payload")) THEN Get(raw_data, "payload") ELSE raw_data} |->
        OrChain(<<Get(working, "lines"), Get(working, "lineItems"), Get(working, "entries"),
                  Get(working, "result"), Get(working, "results"), Get(working, "data")>>)])

\* the entries _parse_snapshot_payload builds, before it sorts them
LegacyEntries(raw_data) ==
    Only([working \in {IF IsDict(Get(raw_data, "payload")) THEN Get(raw_data, "payload") ELSE raw_data} |->
    Only([maps \in {BuildDetailMaps(DetailsList(working))} |->
    Only([lines \in {LegacyLines(raw_data).items} |->
        ParseCurrencyLines(lines, FindDivineChaosValue(lines), maps.icons, maps.names)])])])

\* _parse_snapshot_payload returns None
LegacyMissing(raw_data) == ~IsDict(raw_data) \/ ~IsList(LegacyLines(raw_data))

-----------------------------------------------------------------------------
(* Source Fetchers *)

POE2_OVERVIEW_ALIASES ==
    [currency |-> <<"Currency", "currency">>,
     fragments |-> <<"Fragments", "fragments", "fragment">>,
     essences |-> <<"Essences", "Essence", "essence">>,
     talismans |-> <<"Talismans", "Talisman", "talismans">>,
     delirium |-> <<"Delirium", "delirium", "delirious">>,
     abyss |-> <<"Abyss", "abyss">>,
     omens |-> <<"Ritual", "Omen", "omen">>,
     catalysts |-> <<"Breach", "Catalyst", "catalysts">>,
     runes |-> <<"Runes", "rune">>,
     expeditions |-> <<"Expedition", "expeditions">>,
     uncutgems |-> <<"UncutGems", "UncutGem", "uncutgems">>]
    @@ ("soul-cores" :> <<"Ultimatum", "SoulCores", "SoulCore">>)

POE2_FALLBACK_OVERVIEWS ==
    <<"Currency", "Fragments", "Essence", "Talismans", "Delirium", "Abyss", "Ritual", "Catalyst",
      "Ultimatum", "Runes", "Expedition", "UncutGems">>

\* aliases + POE2_FALLBACK_OVERVIEWS of _fetch_poe2_items_with_aliases
AliasCandidates(category) ==
    (IF Lower(category) \in DOMAIN POE2_OVERVIEW_ALIASES
     THEN POE2_OVERVIEW_ALIASES[Lower(category)] ELSE <<category>>) \o POE2_FALLBACK_OVERVIEWS

\* the position of the next candidate the loop requests, from position i on:
\* empty names and names already tried are passed over
RECURSIVE NextAlias(_, _, _)
NextAlias(candidates, i, tried) ==
    IF i > Len(candidates) THEN i
    ELSE IF candidates[i] = "" \/ candidates[i] \in tried THEN NextAlias(candidates, i + 1, tried)
    ELSE i

\* _fetch_poe2_items_once on the response to its request: the list returned,
\* or the exception data.get raises on a body that is not an object
ItemsOnce(response) ==
    IF response.t \in {"fail", "garbage"} THEN [exc |-> "none", items |-> <<>>]
    ELSE IF ~IsDict(response) THEN [exc |-> "AttributeError", items |-> <<>>]
    ELSE IF IsList(Get(response, "items")) THEN [exc |-> "none", items |-> Get(response, "items").items]
    ELSE IF IsList(Get(response, "lines")) THEN [exc |-> "none", items |-> Get(response, "lines").items]
    ELSE IF IsList(Get(response, "entries")) THEN [exc |-> "none", items |-> Get(response, "entries").items]
    ELSE [exc |-> "none", items |-> <<>>]

\* _fetch_poe2_overview_payload on the response to its request
OverviewPayload(response) ==
    IF response.t \in {"fail", "garbage"} THEN [exc |-> "none", payload |-> Null]
    ELSE IF ~IsDict(response) THEN [exc |-> "AttributeError", payload |-> Null]
    ELSE IF IsDict(Get(response, "payload")) THEN [exc |-> "none", payload |-> Get(response, "payload")]
    ELSE [exc |-> "none", payload |-> response]

\* the exceptions and their messages
NoError == [type |-> "none", message |-> ""]
Raised(type, message) == [type |-> type, message |-> message]
ExhaustedMessageOfCategory(category, league) == "No data returned for category '" \o category \o "'."
ExhaustedMessage(category, league) ==
    "No data returned for category '" \o category \o "' in league '" \o league \o "'."

\* lines 463-498 of _fetch_poe2_snapshot: the lines and lookups drawn from the
\* overview payload, the exchange maps laid over them, and the divine rate
Poe2Context(items, overview_payload, exchange_icons, exchange_names, exchange_divine_rate, seed) ==
    Only([lines \in {IF ~Truthy(overview_payload) THEN Null
                      ELSE OrChain(<<Get(overview_payload, "lines"), Get(overview_payload, "lineItems"),
                                     Get(overview_payload, "entries"), Get(overview_payload, "items")>>)} |->
    Only([overview_lines \in {IF Truthy(overview_payload) /\ IsList(lines) THEN lines.items ELSE <<>>} |->
    Only([maps \in {IF Truthy(overview_payload) THEN BuildDetailMaps(DetailsList(overview_payload))
         ELSE [icons |-> <<>>, names |-> <<>>]} |->
    Only([icon_lookup \in {Update(maps.icons, exchange_icons)} |->
    Only([name_lookup \in {Update(maps.names, exchange_names)} |->
    Only([rate1 \in {FindDivineFromItems(items)} |->
    Only([rate2 \in {IF ~Truthy(rate1) /\ Len(overview_lines) > 0 THEN FindDivineFromOverview(overview_lines) ELSE rate1} |->
    Only([divine_rate \in {IF ~Truthy(rate2) /\ Truthy(exchange_divine_rate) THEN exchange_divine_rate ELSE rate2} |->
        [overview_lines |-> overview_lines, icon_lookup |-> icon_lookup, name_lookup |-> name_lookup,
         divine_rate |-> divine_rate,
         overview_lookup |-> BuildOverviewLookup(overview_lines, name_lookup, seed)]])])])])])])])])

\* the comparison entry.chaos_value > 0 of _apply_exalted_values raises
\* TypeError on an entry without a value
ExaltRaises(entries) ==
    LET named(e) == Contains(Lower(e.name.s), "exalted orb") /\ ~Contains(Lower(e.name.s), "perfect")
                    /\ ~Contains(Lower(e.name.s), "greater") IN
    LET first(e) == named(e) \/ Lower(Or(e.details_id, JStr("")).s) = "exalted-orb" IN
    Only([valued \in {SelectSeq(entries, LAMBDA e : ~IsNull(e.chaos_value))} |->
        \/ \E i \in 1..Len(entries) : IsNull(entries[i].chaos_value) /\ first(entries[i])
        \/ /\ Len(ExactExaltCandidates(valued)) = 0
           /\ \E i \in 1..Len(entries) : IsNull(entries[i].chaos_value) /\ Contains(Lower(entries[i].name.s), "exalt")])

-----------------------------------------------------------------------------
(* The responses the sources give *)

\* the lists of at most n elements of pool
ListsOf(pool, n) == UNION {[1..k -> pool] : k \in 0..n}

\* the bodies every endpoint may answer with besides its data: a transport
\* failure, a body that is not JSON, a JSON list, an empty object
Faults == {TransportFailure, Unparseable, JList(<<>>), EmptyObj}

\* exchange overview: the item metadata, the core rates and the lines
ExchangeItems ==
    <<JObj([id |-> JStr("exalted"), name |-> JStr("Exalted Orb"), detailsId |-> JStr("exalted-orb"),
            image |-> JStr("/img/exalted.png")]),
      JObj([id |-> JStr("chance"), name |-> JStr("Orb of Chance")])>>

ExchangeCore == JObj([primary |-> JStr("divine"), secondary |-> JStr("chaos"), rates |-> JObj([chaos |-> JInt(6)])])

ExchangeLinePool ==
    {JObj([id |-> JStr("exalted"), primaryValue |-> JFloat(1, 2), volumePrimaryValue |-> JInt(9)]),
     JObj([id |-> JStr("mirror"), primaryValue |-> JInt(2)])}

\* the bodies of the exchange overview, one of them of a server that sends no item metadata
ExchangeBodies ==
    {JObj([items |-> JList(ExchangeItems), lines |-> JList(l), core |-> ExchangeCore]) :
        l \in ListsOf(ExchangeLinePool, MaxExchangeLines)}
    \cup {JObj([lines |-> JList(<<>>), core |-> ExchangeCore])}

ExchangeResponses == Faults \cup ExchangeBodies \cup {JObj([payload |-> b]) : b \in ExchangeBodies}

\* temp overview: item rows
TempItemPool ==
    {JObj([name |-> JStr("Exalted Orb"), chaosValue |-> JInt(2)]),
     JObj([id |-> JStr("exalted-orb"), chaosValue |-> JInt(3), count |-> JInt(4),
           item |-> JObj([icon |-> JStr("/img/ex.png")])])}

TempResponses ==
    Faults \cup {JObj([items |-> JList(l)]) : l \in ListsOf(TempItemPool, MaxItems)}
           \cup {JObj([lines |-> JList(l)]) : l \in ListsOf(TempItemPool, MaxItems)}

\* the answers to the request for the i-th candidate name: the server holds
\* rows under the first MaxDataAliases candidate names only
TempResponsesAt(i) == IF i <= MaxDataAliases THEN TempResponses ELSE Faults

\* currency overview of poe2: lines and metadata
OverviewLinePool ==
    {JObj([currencyTypeName |-> JStr("Exalted Orb"), chaosEquivalent |-> JInt(3),
           receiveSparkLine |-> JObj([totalChange |-> JInt(-5), data |-> JList(<<JInt(1), JInt(2)>>)])]),
     JObj([detailsId |-> JStr("exalted-orb"), chaosEquivalent |-> JInt(5)]),
     JObj([currencyTypeName |-> JStr("Orb of Chance")]),
     JObj([currencyTypeName |-> JStr("Orb of Chance"), chaosEquivalent |-> JInt(3)])}

OverviewDetails == <<JObj([name |-> JStr("Exalted Orb"), icon |-> JStr("/img/exalted.png"), id |-> JInt(7)])>>

OverviewResponses ==
    Faults \cup {JObj([lines |-> JList(l), currencyDetails |-> JList(OverviewDetails)]) :
                    l \in ListsOf(OverviewLinePool, MaxOverviewLines)}

\* currency overview of the legacy game
LegacyLinePool ==
    {JObj([currencyTypeName |-> JStr("Exalted Orb"), chaosEquivalent |-> JInt(2), detailsId |-> JStr("exalted-orb")]),
     JObj([currencyTypeName |-> JStr("exalted orb"), chaosEquivalent |-> JInt(2)]),
     JObj([currencyTypeName |-> JStr("Divine Orb"), chaosEquivalent |-> JInt(6)]),
     JObj([currencyTypeName |-> JStr("Scrap")]),
     JObj([currency |-> JObj([name |-> JStr("")]), chaosEquivalent |-> JInt(1)])}

LegacyResponses ==
    Faults \cup {JObj([lines |-> JList(l)]) : l \in ListsOf(LegacyLinePool, MaxLegacyLines)}

\* the arguments of a call
Leagues == {"Dawn"}
Categories == {"Omens"}
Games == {"poe2", "poe"}

-----------------------------------------------------------------------------
(* fetch_currency_snapshot *)

\* the locals of a call before its first statement
Locals ==
    [exchange_raw |-> Null, exchange_data |-> Null, endpoint |-> 1,
     exchange_icons |-> <<>>, exchange_names |-> <<>>, exchange_divine_rate |-> Null,
     items |-> <<>>, temp_items |-> <<>>, source_type |-> "", alias |-> 1, tried |-> {},
     overview_payload |-> Null, icon_lookup |-> <<>>, name_lookup |-> <<>>, divine_rate |-> Null,
     overview_lookup |-> <<>>, server |-> "", entries |-> <<>>, merged |-> <<>>, owners |-> <<>>,
     presort |-> <<>>, exalt_price |-> Null]

Init ==
    /\ pc = "call"
    /\ req \in [fn : {"fetch_currency_snapshot"}, league : Leagues, category : Categories, game : Games]
    /\ ret = Null
    /\ error = NoError
    /\ hashseed \in 1..NumSeeds
    /\ lv = Locals

\* the call ends with an exception
Raise(type, message) ==
    /\ pc' = "raised"
    /\ error' = Raised(type, message)
    /\ UNCHANGED <<req, ret, hashseed, lv>>

\* the call moves on to the next step
Goto(step, locals) ==
    /\ pc' = step
    /\ lv' = locals
    /\ UNCHANGED <<req, ret, error, hashseed>>

\* fetch_currency_snapshot picks the pipeline of the game
Dispatch ==
    /\ pc = "call"
    /\ req.fn = "fetch_currency_snapshot"
    /\ Goto(IF Lower(req.game) = "poe2" THEN "exchange_overview" ELSE "legacy_overview", lv)

\* one candidate endpoint of _fetch_poe2_exchange_overview
ExchangeOverviewRequest ==
    /\ pc = "exchange_overview"
    /\ \E response \in ExchangeResponses :
          (\E payload \in {ExchangePayload(response)} :
          (\E last \in {lv.endpoint = Len(POE2_EXCHANGE_OVERVIEW_ENDPOINTS)} :
              IF IsNull(payload) /\ ~last
              THEN Goto("exchange_overview", [lv EXCEPT !.endpoint = @ + 1])
              ELSE Goto("prepare", [lv EXCEPT !.endpoint = 1, !.exchange_raw = payload, !.exchange_data = payload])))

\* _prepare_exchange_rows and the choice of the source of the items
PrepareExchange ==
    /\ pc = "prepare"
    /\ (\E prepared \in {PrepareExchangeRows(lv.exchange_data)} :
           Goto(IF Len(prepared.rows) > 0 THEN "overview" ELSE "aliases",
                [lv EXCEPT !.exchange_data = prepared.data, !.items = prepared.rows,
                           !.exchange_icons = prepared.icons, !.exchange_names = prepared.names,
                           !.exchange_divine_rate = prepared.divine_rate,
                           !.source_type = IF Len(prepared.rows) > 0 THEN "poe2-exchange" ELSE "poe2-temp"]))

\* one candidate name of _fetch_poe2_items_with_aliases
AliasRequest ==
    /\ pc = "aliases"
    /\ (\E candidates \in {AliasCandidates(req.category)} :
       (\E i \in {NextAlias(candidates, lv.alias, lv.tried)} :
           /\ i <= Len(candidates)
           /\ \E response \in TempResponsesAt(i) :
                 (\E once \in {ItemsOnce(response)} :
                     IF once.exc # "none" THEN Raise(once.exc, "")
                     ELSE IF Len(once.items) > 0
                          THEN Goto("overview", [lv EXCEPT !.alias = i, !.tried = {}, !.items = once.items,
                                                           !.temp_items = once.items])
                     ELSE Goto("aliases", [lv EXCEPT !.alias = i + 1, !.tried = @ \cup {candidates[i]}]))))

\* every candidate name yielded nothing: _fetch_poe2_snapshot raises
AliasesExhausted ==
    /\ pc = "aliases"
    /\ (\E candidates \in {AliasCandidates(req.category)} :
           NextAlias(candidates, lv.alias, lv.tried) > Len(candidates))
    /\ Raise("ApiError", ExhaustedMessage(req.category, req.league))

\* _fetch_poe2_overview_payload and the lookups built from its answer
OverviewRequest ==
    /\ pc = "overview"
    /\ \E response \in OverviewResponses :
          (\E fetched \in {OverviewPayload(response)} :
          (\E context \in {Poe2Context(lv.items, fetched.payload, lv.exchange_icons, lv.exchange_names,
                           lv.exchange_divine_rate, hashseed)} :
              IF fetched.exc # "none" THEN Raise(fetched.exc, "")
              ELSE Goto("merge", [lv EXCEPT !.overview_payload = fetched.payload,
                                            !.icon_lookup = context.icon_lookup,
                                            !.name_lookup = context.name_lookup,
                                            !.divine_rate = context.divine_rate,
                                            !.overview_lookup = context.overview_lookup])))

\* _merge_poe2_data
Merge ==
    /\ pc = "merge"
    /\ Goto(IF Truthy(lv.exchange_data) THEN "overlay" ELSE "unmatched",
            [lv EXCEPT !.entries = MergePoe2Data(lv.items, lv.overview_lookup, lv.icon_lookup, lv.name_lookup,
                                                 lv.divine_rate, hashseed)])

\* _apply_exchange_overview_data, the detail pages answered by one of the servers
Overlay ==
    /\ pc = "overlay"
    /\ \E server \in DetailServers :
          Goto("unmatched",
               [lv EXCEPT !.server = server,
                          !.entries = ApplyExchangeOverviewData(
                                          lv.entries, lv.exchange_data, lv.icon_lookup, lv.name_lookup,
                                          server,
                                          hashseed)])

\* _add_unmatched_overview_entries
AddUnmatched ==
    /\ pc = "unmatched"
    /\ Goto("dedup", [lv EXCEPT !.entries = AddUnmatchedOverviewEntries(lv.entries, lv.overview_lookup,
                                                lv.icon_lookup, lv.name_lookup, lv.divine_rate, hashseed)])

\* _deduplicate_entries
Dedup ==
    /\ pc = "dedup"
    /\ (\E run \in {DedupRun(lv.entries, hashseed)} :
           IF run.exc # "none" THEN Raise(run.exc, "")
           ELSE Goto("stamp", [lv EXCEPT !.merged = lv.entries, !.owners = run.owners,
                                         !.entries = OrderedOf(run)]))

\* the divine values stamped after the deduplication
StampDivineStep ==
    /\ pc = "stamp"
    /\ Goto("sort", [lv EXCEPT !.entries = StampDivine(lv.entries, lv.divine_rate)])

\* entries.sort(...) of _fetch_poe2_snapshot
Sort ==
    /\ pc = "sort"
    /\ IF SortRaises(lv.entries) THEN Raise("TypeError", "")
       ELSE Goto("exalted", [lv EXCEPT !.presort = lv.entries, !.entries = SortDescending(lv.entries)])

\* the request of _fetch_poe_snapshot and _parse_snapshot_payload on its answer
LegacyRequest ==
    /\ pc = "legacy_overview"
    /\ \E response \in LegacyResponses :
          IF response = TransportFailure THEN Raise("ApiError", "transport")
          ELSE IF response = Unparseable THEN Raise("JSONDecodeError", "")
          ELSE IF LegacyMissing(response) THEN Raise("ApiError", "PoE currency overview response missing expected data.")
          ELSE (\E entries \in {LegacyEntries(response)} :
                   Goto("exalted", [lv EXCEPT !.source_type = "currencyoverview", !.presort = entries,
                                              !.entries = SortDescending(entries)]))

\* _apply_exalted_values
ApplyExalted ==
    /\ pc = "exalted"
    /\ IF ExaltRaises(lv.entries) THEN Raise("TypeError", "")
       ELSE Goto("snapshot", [lv EXCEPT !.exalt_price = ExaltPrice(lv.entries),
                                        !.entries = ApplyExaltedValues(lv.entries)])

\* the snapshot is handed to the caller
Return ==
    /\ pc = "snapshot"
    /\ pc' = "returned"
    /\ ret' = [league |-> req.league, entries |-> lv.entries,
               source_type |-> req.category \o ":" \o lv.source_type]
    /\ UNCHANGED <<req, error, hashseed, lv>>

Next ==
    \/ Dispatch
    \/ ExchangeOverviewRequest
    \/ PrepareExchange
    \/ AliasRequest
    \/ AliasesExhausted
    \/ OverviewRequest
    \/ Merge
    \/ Overlay
    \/ AddUnmatched
    \/ Dedup
    \/ StampDivineStep
    \/ Sort
    \/ LegacyRequest
    \/ ApplyExalted
    \/ Return

Spec == Init /\ [][Next]_vars

-----------------------------------------------------------------------------
(* The snapshot _fetch_poe2_snapshot computes under a given iteration order *)

\* lines 463-523 of _fetch_poe2_snapshot as one function of the answers of the
\* sources and of the order in which the sets of keys are iterated
Poe2Outcome(items, overview_payload, exchange_data, exchange_icons, exchange_names, exchange_divine_rate, server, seed) ==
    Only([context \in {Poe2Context(items, overview_payload, exchange_icons, exchange_names,
                                   exchange_divine_rate, seed)} |->
    Only([merged \in {MergePoe2Data(items, context.overview_lookup, context.icon_lookup, context.name_lookup,
                                    context.divine_rate, seed)} |->
    Only([overlaid \in {IF Truthy(exchange_data)
                        THEN ApplyExchangeOverviewData(
                                 merged, exchange_data, context.icon_lookup, context.name_lookup,
                                 server, seed)
                        ELSE merged} |->
    Only([unmatched \in {AddUnmatchedOverviewEntries(overlaid, context.overview_lookup, context.icon_lookup,
                                                     context.name_lookup, context.divine_rate, seed)} |->
    Only([run \in {DedupRun(unmatched, seed)} |->
        IF run.exc # "none" THEN [exc |-> run.exc, entries |-> <<>>]
        ELSE Only([stamped \in {StampDivine(OrderedOf(run), context.divine_rate)} |->
                 IF SortRaises(stamped) THEN [exc |-> "TypeError", entries |-> <<>>]
                 ELSE Only([sorted \in {SortDescending(stamped)} |->
                          IF ExaltRaises(sorted) THEN [exc |-> "TypeError", entries |-> <<>>]
                          ELSE [exc |-> "none", entries |-> ApplyExaltedValues(sorted)]])])])])])])])

-----------------------------------------------------------------------------
(* Properties of the snapshots of fetch_currency_snapshot *)

Returned == pc = "returned"
ReturnedPoe2 == Returned /\ Lower(req.game) = "poe2"
ReturnedLegacy == Returned /\ Lower(req.game) # "poe2"

\* C1: in every returned snapshot, of the poe2 path and of the legacy path alike,
\* no two distinct entities have a key in common, the keys of an entity being the
\* normalized variants of its name and of its details_id
C1_NoSharedKeys ==
    Returned =>
        \A i, j \in 1..Len(ret.entries) :
            i # j => EntryKeys(ret.entries[i], hashseed) \cap EntryKeys(ret.entries[j], hashseed) = {}

\* C4: the snapshot the poe2 pipeline returns is the one it computes from the same
\* answers of the sources under every iteration order of the sets of key variants
C4_SameUnderEveryOrder ==
    ReturnedPoe2 =>
        \A seed \in 1..NumSeeds :
            Poe2Outcome(lv.items, lv.overview_payload, lv.exchange_data, lv.exchange_icons, lv.exchange_names,
                        lv.exchange_divine_rate, lv.server, seed)
                = [exc |-> "none", entries |-> ret.entries]

\* C5: whenever _deduplicate_entries merges a duplicate into an owner, every
\* attribute set on the duplicate or on the owner is set on the surviving owner
MergedAttributes ==
    {"chaos_value", "divine_value", "exalt_value", "change_percent", "sparkline", "trade_count",
     "details_id", "icon_url"}
IsSet(v) == ~IsNull(v) /\ v # JList(<<>>)
SurvivingOwner(i) == lv.entries[Cardinality({j \in 1..lv.owners[i] : lv.owners[j] = j})]
C5_DedupKeepsAttributes ==
    pc = "stamp" =>
        \A i \in 1..Len(lv.merged) : \A a \in MergedAttributes :
            IsSet(lv.merged[i][a]) => IsSet(SurvivingOwner(i)[a])

\* the candidate names of the temp overview, all of them tried without a row
AllCandidates ==
    {AliasCandidates(req.category)[i] : i \in 1..Len(AliasCandidates(req.category))} \ {""}
SourcesExhausted == pc = "aliases" /\ Len(lv.items) = 0 /\ AllCandidates \subseteq lv.tried

\* C6: when the exchange overview yields no usable row and every alias and
\* fallback name of the temp overview yields an empty list, the call returns no
\* snapshot and raises ApiError with a message naming the category and the league
C6_ExhaustedSourcesRaise ==
    [][SourcesExhausted =>
          /\ pc' = "raised"
          /\ ret' = Null
          /\ error'.type = "ApiError"
          /\ Contains(error'.message, "'" \o req.category \o "'")
          /\ Contains(error'.message, "'" \o req.league \o "'")]_vars
C6_Witness ==
    /\ pc = "raised"
    /\ error.type = "ApiError"
    /\ Len(lv.items) = 0
    /\ AllCandidates \subseteq lv.tried

\* C7: the only error that ever escapes fetch_currency_snapshot is the error of
\* the exhausted sources
C7_OnlyExhaustedSourcesEscape ==
    pc = "raised" => error = Raised("ApiError", ExhaustedMessage(req.category, req.league))

\* the place of the i-th entry of the list handed to the sort in a stable
\* descending order: behind the entries of greater value and the earlier ones of equal value
PlaceOf(i) ==
    1 + Cardinality({j \in 1..Len(lv.presort) :
                        \/ FGt(lv.presort[j].chaos_value, lv.presort[i].chaos_value)
                        \/ j < i /\ FEq(lv.presort[j].chaos_value, lv.presort[i].chaos_value)})

\* C8: in every returned snapshot the entries are in descending order of
\* chaos_value, and entries of equal value are in the order they had before the sort
C8_SortedDescendingStable ==
    Returned =>
        /\ Len(ret.entries) = Len(lv.presort)
        /\ \A i \in 1..Len(lv.presort) :
              [ret.entries[PlaceOf(i)] EXCEPT !.exalt_value = Null] = lv.presort[i]
C8_Witness ==
    /\ Returned
    /\ \E i, j \in 1..Len(lv.presort) :
          i < j /\ lv.presort[i] # lv.presort[j] /\ FEq(lv.presort[i].chaos_value, lv.presort[j].chaos_value)
    /\ \E i, j \in 1..Len(lv.presort) : i < j /\ FGt(lv.presort[j].chaos_value, lv.presort[i].chaos_value)

\* C9: after every step of the pipeline, and in the returned snapshot, every
\* entry has a chaos_value that is present and not negative
C9_BaseValuePresent ==
    \A i \in 1..Len(lv.entries) : IsNum(lv.entries[i].chaos_value) /\ NumOf(lv.entries[i].chaos_value) >= 0

\* C10: in a returned snapshot for which an exalt price was resolved, every entry
\* of positive chaos_value has exalt_value = chaos_value / exalt_price and every
\* entry of chaos_value 0 has no exalt_value
C10_RatioConsistency ==
    (Returned /\ ~IsNull(lv.exalt_price)) =>
        \A i \in 1..Len(ret.entries) :
            /\ FGt(ret.entries[i].chaos_value, FZero) =>
                  /\ ~IsNull(ret.entries[i].exalt_value)
                  /\ FEq(FMul(ret.entries[i].exalt_value, lv.exalt_price), ret.entries[i].chaos_value)
            /\ FEq(ret.entries[i].chaos_value, FZero) => IsNull(ret.entries[i].exalt_value)
C10_Witness ==
    /\ Returned
    /\ ~IsNull(lv.exalt_price)
    /\ ~FEq(lv.exalt_price, FOne)
    /\ \E i \in 1..Len(ret.entries) :
          FGt(ret.entries[i].chaos_value, lv.exalt_price) /\ ~IsNull(ret.entries[i].exalt_value)
    /\ \E i \in 1..Len(ret.entries) : FEq(ret.entries[i].chaos_value, FZero)

\* the entries of the returned snapshot that have a divine_value
WithDivineValue == {i \in 1..Len(ret.entries) : ~IsNull(ret.entries[i].divine_value)}

\* some rate R has divine_value = chaos_value / R on every entry of the set:
\* the value is 0 exactly where the chaos_value is, and the quotients agree
OneRate(have) ==
    /\ \A i \in have : FEq(ret.entries[i].divine_value, FZero) <=> FEq(ret.entries[i].chaos_value, FZero)
    /\ \A i, j \in have :
          FEq(FMul(ret.entries[i].chaos_value, ret.entries[j].divine_value),
              FMul(ret.entries[j].chaos_value, ret.entries[i].divine_value))

\* C13: in every returned poe2 snapshot one rate R gives divine_value =
\* chaos_value / R on every entry that has a divine_value, and when some entry
\* has a divine_value every entry of positive chaos_value has one
C13_OneDivineRate ==
    ReturnedPoe2 =>
        /\ OneRate(WithDivineValue)
        /\ WithDivineValue # {} =>
              \A i \in 1..Len(ret.entries) : FGt(ret.entries[i].chaos_value, FZero) => i \in WithDivineValue

\* the part of a source tag in front of its first ':'
RECURSIVE TagCategory(_)
TagCategory(tag) == IF tag = "" \/ SubSeq(tag, 1, 1) = ":" THEN "" ELSE SubSeq(tag, 1, 1) \o TagCategory(SubSeq(tag, 2, Len(tag)))

\* the temp overview supplied the rows under a candidate name requested after the first
LaterAliasSupplied == lv.source_type = "poe2-temp" /\ lv.alias > 1

\* C14: when the first candidate name of the temp overview yields no row and a
\* later one yields the rows, the source tag of the returned snapshot names the
\* candidate that supplied them
C14_TagNamesSupplyingAlias ==
    (ReturnedPoe2 /\ LaterAliasSupplied) =>
        TagCategory(ret.source_type) = AliasCandidates(req.category)[lv.alias]

\* C19: every entity of a returned snapshot, of the poe2 path and of the legacy
\* path alike, has a name that is a non-empty string
C19_NamesNonEmpty ==
    Returned =>
        \A i \in 1..Len(ret.entries) : IsStr(ret.entries[i].name) /\ ret.entries[i].name.s # ""

\* C21: the candidate names of the temp overview are requested in order, each
\* once; the loop is left for the merger only with the non-empty rows of the
\* candidate just requested, and it is left with an exception only when every
\* candidate has yielded nothing, the exception being the exhausted-sources error
C21_CascadeRunsToTheEnd ==
    [][pc = "aliases" =>
          /\ pc' = "overview" =>
                /\ Len(lv'.items) > 0
                /\ lv'.alias = NextAlias(AliasCandidates(req.category), lv.alias, lv.tried)
          /\ pc' = "raised" =>
                /\ NextAlias(AliasCandidates(req.category), lv.alias, lv.tried) > Len(AliasCandidates(req.category))
                /\ error' = Raised("ApiError", ExhaustedMessage(req.category, req.league))]_vars

-----------------------------------------------------------------------------
(* The value cascade applied to bounded lines *)

DirectFields == <<"chaosEquivalent", "chaosValue", "secondaryValue", "valueChaos", "secondary">>

TopFields == {DirectFields[i] : i \in 1..Len(DirectFields)} \cup {"primaryValue", "volumePrimaryValue"}

\* the fields read inside the nested rate object, written rate.<field>
RateFields == {"rate.chaosPerItem", "rate.chaos", "rate.chaosValue", "rate.divine"}

RateKey(name) == SubSeq(name, 6, Len(name))

\* the values a field of a generated line takes: zero, a negative and a
\* positive number, and a numeric string
FieldValues == {JInt(0), JInt(-4), JFloat(5, 2), JStr("1.5")}

\* the conversion rates handed to the cascade: none or a resolved rate
RateValues == {Null, JFloat(3, 1)}

\* the line whose present fields and their values are given by assign
MkLine(assign) ==
    Only([top \in {(DOMAIN assign) \cap TopFields} |->
    Only([nested \in {(DOMAIN assign) \cap RateFields} |->
    Only([rateObj \in {JObj([k \in {RateKey(r) : r \in nested} |-> assign["rate." \o k]])} |->
        JObj([k \in top \cup (IF nested = {} THEN {} ELSE {"rate"}) |->
                 IF k = "rate" THEN rateObj ELSE assign[k]])])])])

CascadeLines ==
    {MkLine(a) : a \in UNION {[S -> FieldValues] :
                     S \in {T \in SUBSET (TopFields \cup RateFields) : Cardinality(T) <= MaxFields}}}

Idle == <<>>

InitValue ==
    /\ pc = "call"
    /\ req \in [fn : {"_compute_chaos_from_line"}, line : CascadeLines, divine_rate : RateValues]
    /\ ret = Null
    /\ error = NoError
    /\ hashseed = 1
    /\ lv = Idle

\* one call of _compute_chaos_from_line(line, divine_rate)
CallComputeChaos ==
    /\ pc = "call"
    /\ req.fn = "_compute_chaos_from_line"
    /\ ret' = ComputeChaosFromLine(req.line, req.divine_rate)
    /\ pc' = "done"
    /\ UNCHANGED <<req, error, hashseed, lv>>

NextValue == CallComputeChaos

SpecValue == InitValue /\ [][NextValue]_vars

ComputeChaosDone == pc = "done" /\ req.fn = "_compute_chaos_from_line"

\* the direct base-unit fields of the line that hold a numeric value
NumericDirect(line) == {i \in 1..Len(DirectFields) : ~IsNull(ExtractFloat(Get(line, DirectFields[i])))}

\* C2: a line with a numeric direct base-unit field, a primaryValue and a
\* non-zero rate resolves to the value of a direct field, whatever number
\* that field holds.
C2_DirectBeatsPrimary ==
    (/\ ComputeChaosDone
     /\ NumericDirect(req.line) # {}
     /\ Has(req.line, "primaryValue")
     /\ Truthy(req.divine_rate))
    => \E i \in NumericDirect(req.line) : ret = ExtractFloat(Get(req.line, DirectFields[i]))

\* the first direct field, in the declared order, that yields a number
RECURSIVE FirstDirect(_, _)
FirstDirect(line, i) ==
    IF i > Len(DirectFields) THEN Null
    ELSE IF ~IsNull(ExtractFloat(Get(line, DirectFields[i]))) THEN ExtractFloat(Get(line, DirectFields[i]))
    ELSE FirstDirect(line, i + 1)

\* the cascade of section 4.4, first applicable step wins
CascadeOf(line, rate) ==
    Only([r \in {Get(line, "rate")} |->
    Only([pv \in {ExtractFloat(Get(line, "primaryValue"))} |->
    Only([vp \in {ExtractFloat(Get(line, "volumePrimaryValue"))} |->
        IF ~IsNull(FirstDirect(line, 1)) THEN FirstDirect(line, 1)
        ELSE IF ~IsNull(pv) /\ ~IsNull(rate) THEN FMul(pv, rate)
        ELSE IF ~IsNull(vp) /\ ~IsNull(rate) THEN FMul(vp, rate)
        ELSE IF ~IsDict(r) THEN Null
        ELSE IF ~IsNull(ExtractFloat(Get(r, "chaosPerItem"))) THEN ExtractFloat(Get(r, "chaosPerItem"))
        ELSE IF ~IsNull(ExtractFloat(Get(r, "chaos"))) /\ FGt(ExtractFloat(Get(r, "chaos")), FZero)
             THEN FDiv(FOne, ExtractFloat(Get(r, "chaos")))
        ELSE IF ~IsNull(ExtractFloat(Get(r, "chaosValue"))) THEN ExtractFloat(Get(r, "chaosValue"))
        ELSE IF ~IsNull(ExtractFloat(Get(r, "divine"))) /\ ~IsNull(rate) THEN FMul(ExtractFloat(Get(r, "divine")), rate)
        ELSE Null])])])

\* C3: the call returns the result of the first applicable step of the
\* cascade (direct fields, primaryValue x rate, volumePrimaryValue x rate,
\* the nested rate object, absence), and absence only when no step applies.
C3_FirstApplicableStep == ComputeChaosDone => ret = CascadeOf(req.line, req.divine_rate)

-----------------------------------------------------------------------------
(* _apply_exalted_values applied to bounded lists of entries *)

ExaltNames == {"Exalted Orb", "Perfect Exalted Orb", "Greater Exalted Orb", "Chaos Orb"}

\* the prices of the generated entries: unpriced, and two prices
ExaltValues == {FZero, JFloat(2, 1), JFloat(3, 1)}

ExaltEntryPool ==
    {NewEntry(JStr(name), value, JList(<<>>), Null, details_id, Null) :
        name \in ExaltNames, value \in ExaltValues, details_id \in {Null, JStr("exalted-orb")}}

InitExalt ==
    /\ pc = "call"
    /\ req \in [fn : {"_apply_exalted_values"}, entries : ListsOf(ExaltEntryPool, MaxExaltEntries)]
    /\ ret = Null
    /\ error = NoError
    /\ hashseed = 1
    /\ lv = Idle

\* one call of _apply_exalted_values(entries): lv holds the price it resolved,
\* ret the entries as the call leaves them
CallApplyExalted ==
    /\ pc = "call"
    /\ req.fn = "_apply_exalted_values"
    /\ lv' = [exalt_price |-> ExaltPrice(req.entries)]
    /\ ret' = ApplyExaltedValues(req.entries)
    /\ pc' = "done"
    /\ UNCHANGED <<req, error, hashseed>>

NextExalt == CallApplyExalted

SpecExalt == InitExalt /\ [][NextExalt]_vars

ApplyExaltedDone == pc = "done" /\ req.fn = "_apply_exalted_values"

\* the name carries a higher-tier qualifier
HigherTier(entry) == Contains(Lower(entry.name.s), "perfect") \/ Contains(Lower(entry.name.s), "greater")

\* C11: whenever _apply_exalted_values resolves a price, the price is the
\* chaos_value of some entry whose name contains neither 'perfect' nor 'greater'
C11_PriceNotFromHigherTier ==
    (ApplyExaltedDone /\ ~IsNull(lv.exalt_price)) =>
        \E i \in 1..Len(req.entries) :
            ~HigherTier(req.entries[i]) /\ FEq(req.entries[i].chaos_value, lv.exalt_price)

\* the entry is the premium-unit item by its exact name or its exact details_id
ExactExaltMatch(entry) ==
    Lower(entry.name.s) = "exalted orb" \/ Lower(Or(entry.details_id, JStr("")).s) = "exalted-orb"

\* the entry is the premium-unit item by the looser substring match
LooseExaltMatch(entry) == Contains(Lower(entry.name.s), "exalt")

\* the least positive chaos_value of the entries, Null when none is positive
MinPositive(entries) ==
    Only([positive \in {SelectSeq(entries, LAMBDA e : FGt(e.chaos_value, FZero))} |->
        IF Len(positive) = 0 THEN Null ELSE MinOf([i \in 1..Len(positive) |-> positive[i].chaos_value])])

\* C12: the price is the least positive chaos_value of the exact matches; the
\* looser matches are the candidates only when no entry is an exact match
C12_MinOfExactMatches ==
    ApplyExaltedDone =>
        lv.exalt_price =
            IF \E i \in 1..Len(req.entries) : ExactExaltMatch(req.entries[i])
            THEN MinPositive(SelectSeq(req.entries, ExactExaltMatch))
            ELSE MinPositive(SelectSeq(req.entries, LooseExaltMatch))

-----------------------------------------------------------------------------
(* _build_overview_lookup and _merge_poe2_data applied to bounded rows and lines *)

\* item rows of the primary source
MergeItemPool ==
    {JObj([id |-> JStr("divine-orb-id"), name |-> JStr("Divine Orb"), chaosValue |-> JInt(180)]),
     JObj([name |-> JStr("Exalted Orb"), chaosValue |-> JInt(2)]),
     JObj([id |-> JStr("exalted-orb"), chaosValue |-> JInt(3)]),
     JObj([name |-> JStr("Orb of Chance")])}

\* lines of the secondary source: with a direct value, with a value that needs
\* the divine rate, and without a value
MergeLinePool ==
    {JObj([detailsId |-> JStr("divine-orb-id"), chaosEquivalent |-> JInt(182)]),
     JObj([currencyTypeName |-> JStr("Exalted Orb"), chaosEquivalent |-> JInt(3)]),
     JObj([detailsId |-> JStr("exalted-orb")]),
     JObj([detailsId |-> JStr("exalted-orb"), primaryValue |-> JFloat(1, 2)]),
     JObj([currencyTypeName |-> JStr("Orb of Chance"), chaosEquivalent |-> JInt(0)])}

InitMerge ==
    /\ pc = "call"
    /\ req \in [fn : {"_merge_poe2_data"}, items : ListsOf(MergeItemPool, MaxMergeItems),
                lines : ListsOf(MergeLinePool, MaxMergeLines), divine_rate : {Null, JFloat(6, 1)}]
    /\ ret = Null
    /\ error = NoError
    /\ hashseed \in 1..NumSeeds
    /\ lv = Idle

\* _build_overview_lookup(lines, {}, {}) and _merge_poe2_data on its result, as
\* _fetch_poe2_snapshot calls them: lv holds the lookup, ret the entries
CallMergePoe2Data ==
    /\ pc = "call"
    /\ req.fn = "_merge_poe2_data"
    /\ (\E overview_lookup \in {BuildOverviewLookup(req.lines, <<>>, hashseed)} :
           /\ lv' = [overview_lookup |-> overview_lookup]
           /\ ret' = MergePoe2Data(req.items, overview_lookup, <<>>, <<>>, req.divine_rate, hashseed))
    /\ pc' = "done"
    /\ UNCHANGED <<req, error, hashseed>>

NextMerge == CallMergePoe2Data

SpecMerge == InitMerge /\ [][NextMerge]_vars

MergeDone == pc = "done" /\ req.fn = "_merge_poe2_data"

\* the keys under which _merge_poe2_data looks a row up
RowKeys(row) ==
    Only([item_node \in {IF IsDict(Get(row, "item")) THEN Get(row, "item")
                         ELSE IF IsDict(Get(row, "currency")) THEN Get(row, "currency") ELSE EmptyObj} |->
    Only([keys \in {CollectKeys(<<ExtractPoe2Name(row, item_node, <<>>), InferDetailsId(row, item_node),
                                  InferCurrencyId(row, item_node), Get(row, "detailsId"), Get(row, "id")>>,
                                hashseed)} |->
        {keys[k] : k \in 1..Len(keys)}])])

\* the lines the lookup holds under a key of the row whose value the cascade resolves
ResolvableMatches(row) ==
    {line \in {OGet(lv.overview_lookup, key) : key \in RowKeys(row)} :
        ~IsNull(line) /\ ~IsNull(ComputeChaosFromLine(line, req.divine_rate))}

\* C15: when a row matches by any key a line of the secondary source whose
\* value the cascade resolves, the entry _merge_poe2_data builds for the row has
\* the chaos_value resolved from such a line, not the row's own value
C15_OverlayWinsOnValue ==
    MergeDone =>
        \A i \in 1..Len(req.items) :
            ResolvableMatches(req.items[i]) # {} =>
                \E line \in ResolvableMatches(req.items[i]) :
                    ret[i].chaos_value = ComputeChaosFromLine(line, req.divine_rate)

-----------------------------------------------------------------------------
(* _collect_keys and _deduplicate_entries applied to names and their slugs *)

\* display names made of words, as the sources spell them
WordNames == {"Exalted Orb", "Orb of Chance", "divine orb", " Greater Rune 2 ", "Mirror"}

\* the values handed to _collect_keys besides the names: empty and blank text,
\* slugs, numbers, and values that are neither text nor numbers
KeyValuePool ==
    {JStr(name) : name \in WordNames}
    \cup {JStr(""), JStr("  "), JStr("exalted-orb"), JStr("Maven's Orb")}
    \cup {JInt(7), JInt(0), JFloat(5, 2), JFloat(-5, 2), JInt(-3)}
    \cup {Null, JList(<<>>), JList(<<JStr("exalted orb")>>), EmptyObj, JObj([name |-> JStr("Exalted Orb")])}

\* the hyphen-slug form of a display name: its words in lower case, joined by '-'
HyphenSlug(name) == ReplaceChar(JoinSpace(Split(Lower(name))), " ", "-")

\* two records of one item: one known by its display name, one by the slug as
\* its details_id, under a name that says nothing or under the humanized slug
NamedRecord(name, value) == NewEntry(JStr(name), value, JList(<<>>), Null, Null, Null)
SlugRecord(name, label, value) == NewEntry(JStr(label), value, JList(<<>>), Null, JStr(HyphenSlug(name)), Null)
RecordValues == {JFloat(25, 2), JFloat(2, 1)}
RecordPairsOf(name) ==
    UNION {{<<NamedRecord(name, v), SlugRecord(name, label, w)>>, <<SlugRecord(name, label, w), NamedRecord(name, v)>>} :
              label \in {"Unknown", HumanizeSlug(HyphenSlug(name))}, v \in RecordValues, w \in RecordValues}
RecordPairs == UNION {RecordPairsOf(name) : name \in WordNames}

InitKeys ==
    /\ pc = "call"
    /\ req \in [fn : {"_collect_keys"}, values : ListsOf(KeyValuePool, MaxKeyValues) \ {<<>>}]
              \cup [fn : {"_deduplicate_entries"}, entries : RecordPairs]
    /\ ret = Null
    /\ error = NoError
    /\ hashseed \in 1..NumSeeds
    /\ lv = Idle

\* one call of _collect_keys(*values)
CallCollectKeys ==
    /\ pc = "call"
    /\ req.fn = "_collect_keys"
    /\ ret' = CollectKeys(req.values, hashseed)
    /\ pc' = "done"
    /\ UNCHANGED <<req, error, hashseed, lv>>

\* one call of _deduplicate_entries(entries)
CallDeduplicateEntries ==
    /\ pc = "call"
    /\ req.fn = "_deduplicate_entries"
    /\ ret' = DeduplicateEntries(req.entries, hashseed)
    /\ pc' = "done"
    /\ UNCHANGED <<req, error, hashseed, lv>>

NextKeys == CallCollectKeys \/ CallDeduplicateEntries

SpecKeys == InitKeys /\ [][NextKeys]_vars

CollectKeysDone == pc = "done" /\ req.fn = "_collect_keys"
DeduplicateDone == pc = "done" /\ req.fn = "_deduplicate_entries"

\* the keys a list holds
KeySet(keys) == {keys[i] : i \in 1..Len(keys)}

-----------------------------------------------------------------------------
(* The exchange fetchers, one request at a time *)

DetailPage == JObj([line |-> JObj([primaryValue |-> JInt(2)]), name |-> JStr("Exalted Orb")])
OverviewPage == JObj([lines |-> JList(<<>>), core |-> ExchangeCore])

\* what one endpoint variant answers to every request of a call
ExchangeAnswers ==
    {TransportFailure, Unparseable, JList(<<>>), EmptyObj, DetailPage, JObj([payload |-> OverviewPage]),
     JObj([payload |-> EmptyObj])}

\* the ids of n entries
DetailIdsOf(n) == [i \in 1..n |-> JStr("item-" \o NatToStr(i))]

\* the numbers of ids handed to _fetch_poe2_exchange_details: a few, and as
\* many as the cap and more
DetailIdCounts == {0, 1, 2} \cup {n \in 1..MaxDetailIds : n >= MAX_DETAIL_ENTRIES - 1}

InitExchange ==
    /\ pc = "call"
    /\ req \in [fn : {"_fetch_poe2_exchange_overview"},
                answers : [1..Len(POE2_EXCHANGE_OVERVIEW_ENDPOINTS) -> ExchangeAnswers]]
              \cup [fn : {"_fetch_poe2_exchange_details"}, ids : {DetailIdsOf(n) : n \in DetailIdCounts},
                    answers : [1..Len(POE2_EXCHANGE_DETAILS_ENDPOINTS) -> ExchangeAnswers]]
    /\ ret = Null
    /\ error = NoError
    /\ hashseed = 1
    /\ lv = Idle

\* the call enters its loop: index and endpoint are the loop positions,
\* requests counts the calls of _make_request
EnterExchangeLoop ==
    /\ pc = "call"
    /\ req.fn \in {"_fetch_poe2_exchange_overview", "_fetch_poe2_exchange_details"}
    /\ pc' = "request"
    /\ lv' = [index |-> 0, endpoint |-> 1, details |-> <<>>, requests |-> 0]
    /\ UNCHANGED <<req, ret, error, hashseed>>

\* one pass of the loop of _fetch_poe2_exchange_overview: one request
ExchangeOverviewVariant ==
    /\ pc = "request"
    /\ req.fn = "_fetch_poe2_exchange_overview"
    /\ (\E payload \in {ExchangePayload(req.answers[lv.endpoint])} :
           IF ~IsNull(payload) \/ lv.endpoint = Len(POE2_EXCHANGE_OVERVIEW_ENDPOINTS)
           THEN /\ pc' = "done"
                /\ ret' = payload
                /\ lv' = [lv EXCEPT !.requests = @ + 1]
           ELSE /\ pc' = "request"
                /\ ret' = ret
                /\ lv' = [lv EXCEPT !.requests = @ + 1, !.endpoint = @ + 1])
    /\ UNCHANGED <<req, error, hashseed>>

\* the ids the outer loop of _fetch_poe2_exchange_details gets to
DetailLoopEnd == IF Len(req.ids) < MAX_DETAIL_ENTRIES THEN Len(req.ids) ELSE MAX_DETAIL_ENTRIES

\* one pass of the inner loop of _fetch_poe2_exchange_details: one request
ExchangeDetailVariant ==
    /\ pc = "request"
    /\ req.fn = "_fetch_poe2_exchange_details"
    /\ lv.index < DetailLoopEnd
    /\ (\E payload \in {ExchangePayload(req.answers[lv.endpoint])} :
           lv' = IF ~IsNull(payload)
                 THEN [lv EXCEPT !.requests = @ + 1, !.endpoint = 1, !.index = @ + 1,
                                 !.details = Store(@, req.ids[lv.index + 1].s, payload)]
                 ELSE IF lv.endpoint = Len(POE2_EXCHANGE_DETAILS_ENDPOINTS)
                 THEN [lv EXCEPT !.requests = @ + 1, !.endpoint = 1, !.index = @ + 1]
                 ELSE [lv EXCEPT !.requests = @ + 1, !.endpoint = @ + 1])
    /\ UNCHANGED <<pc, req, ret, error, hashseed>>

\* _fetch_poe2_exchange_details returns the details it gathered
ExchangeDetailsReturn ==
    /\ pc = "request"
    /\ req.fn = "_fetch_poe2_exchange_details"
    /\ lv.index >= DetailLoopEnd
    /\ pc' = "done"
    /\ ret' = lv.details
    /\ UNCHANGED <<req, error, hashseed, lv>>

NextExchange ==
    \/ EnterExchangeLoop
    \/ ExchangeOverviewVariant
    \/ ExchangeDetailVariant
    \/ ExchangeDetailsReturn

SpecExchange == InitExchange /\ [][NextExchange]_vars

FetchingDetails == req.fn = "_fetch_poe2_exchange_details" /\ pc \in {"request", "done"}
FetchingOverview == req.fn = "_fetch_poe2_exchange_overview" /\ pc \in {"request", "done"}

\* C17: during a call the number of requests sent to the exchange detail
\* endpoints never exceeds MAX_DETAIL_ENTRIES
C17_DetailRequestsCapped == FetchingDetails => lv.requests <= MAX_DETAIL_ENTRIES

\* the variant failed in transport, failed to parse, or returned a body that
\* is empty or not an object
VariantFailed(answer) ==
    answer = TransportFailure \/ answer = Unparseable \/ ~IsDict(answer) \/ answer = EmptyObj

\* the payload of a body: its 'payload' member when that is a non-empty
\* object, the body itself otherwise
PayloadOfBody(body) ==
    IF Has(body, "payload") /\ IsDict(Get(body, "payload")) /\ Get(body, "payload") # EmptyObj
    THEN Get(body, "payload") ELSE body

\* the payload of the first variant, in the declared order, that did not fail
RECURSIVE FirstVariantPayload(_, _)
FirstVariantPayload(answers, endpoint) ==
    IF endpoint > Len(answers) THEN Null
    ELSE IF ~VariantFailed(answers[endpoint]) THEN PayloadOfBody(answers[endpoint])
    ELSE FirstVariantPayload(answers, endpoint + 1)

\* the number of variants queried for one item: up to the first that did not fail
VariantsQueried(answers) ==
    IF \E e \in 1..Len(answers) : ~VariantFailed(answers[e])
    THEN CHOOSE e \in 1..Len(answers) : ~VariantFailed(answers[e]) /\ \A d \in 1..(e - 1) : VariantFailed(answers[d])
    ELSE Len(answers)

\* C20: the exchange overview and the exchange details query their endpoint
\* variants in the declared order, a later variant only after every earlier one
\* failed (in transport, in parsing, or by an empty or non-object body), and
\* the result is the payload of the first variant that did not fail, absent
\* when all failed
C20_VariantsInOrder ==
    /\ (pc = "request" /\ lv.index < (IF FetchingDetails THEN DetailLoopEnd ELSE 1)) =>
          \A e \in 1..(lv.endpoint - 1) : VariantFailed(req.answers[e])
    /\ (FetchingOverview /\ pc = "done") =>
          /\ ret = FirstVariantPayload(req.answers, 1)
          /\ lv.requests = VariantsQueried(req.answers)
    /\ (FetchingDetails /\ pc = "done") =>
          /\ lv.requests = DetailLoopEnd * VariantsQueried(req.answers)
          /\ \A i \in 1..DetailLoopEnd :
                IF IsNull(FirstVariantPayload(req.answers, 1)) THEN ~InDict(ret, req.ids[i])
                ELSE Lookup(ret, req.ids[i]) = FirstVariantPayload(req.answers, 1)
C20_Witness ==
    /\ FetchingDetails
    /\ pc = "done"
    /\ Len(req.ids) = 2
    /\ req.answers[1] = JList(<<>>)
    /\ req.answers[2] = JObj([payload |-> OverviewPage])
    /\ lv.requests = 4
    /\ Lookup(ret, req.ids[2]) = OverviewPage

-----------------------------------------------------------------------------
(* _apply_exchange_overview_data applied to bounded entries and exchange lines *)

\* entries as the merger leaves them: one with every attribute known, one with
\* none, one whose count and change are zero
OverlayEntryPool ==
    {[NewEntry(JStr("Exalted Orb"), JFloat(2, 1), JList(<<JFloat(1, 1), JFloat(2, 1)>>), JInt(4),
               JStr("exalted-orb"), JStr("/img/ex.png")) EXCEPT !.change_percent = JFloat(-5, 1)],
     NewEntry(JStr("Orb of Chance"), JFloat(3, 1), JList(<<>>), Null, Null, Null),
     [NewEntry(JStr("Mirror"), JFloat(9, 1), JList(<<>>), JInt(0), JStr("mirror"), Null)
         EXCEPT !.change_percent = FZero]}

\* exchange lines: with a price and a volume, with a change and an empty
\* trend, with a volume that rounds to nothing, with a trend, with nothing
OverlayLinePool ==
    {JObj([id |-> JStr("exalted-orb"), primaryValue |-> JFloat(1, 2), volumePrimaryValue |-> JInt(9)]),
     JObj([id |-> JStr("exalted-orb"), change |-> JInt(0),
           sparkLine |-> JObj([totalChange |-> JInt(3), data |-> JList(<<>>)])]),
     JObj([id |-> JStr("exalted-orb"), volume |-> JFloat(2, 5)]),
     JObj([id |-> JStr("mirror"), sparkLine |-> JObj([totalChange |-> JInt(7), data |-> JList(<<JInt(3), JInt(4)>>)])]),
     JObj([name |-> JStr("Orb of Chance")])}

OverlayServers == DetailServers \cup {"trend"}

OverlayIcons == [mirror |-> JStr("/img/mirror.png")]

InitOverlay ==
    /\ pc = "call"
    /\ req \in [fn : {"_apply_exchange_overview_data"}, entries : ListsOf(OverlayEntryPool, MaxOverlayEntries),
                exchange_data : {JObj([lines |-> JList(l), core |-> ExchangeCore]) :
                                    l \in ListsOf(OverlayLinePool, MaxOverlayLines)},
                server : OverlayServers]
    /\ ret = Null
    /\ error = NoError
    /\ hashseed \in 1..NumSeeds
    /\ lv = Idle

\* one call of _apply_exchange_overview_data(entries, exchange_data, ...): ret
\* holds the list entries as the call leaves it
CallApplyExchangeOverview ==
    /\ pc = "call"
    /\ req.fn = "_apply_exchange_overview_data"
    /\ ret' = ApplyExchangeOverviewData(req.entries, req.exchange_data, OverlayIcons, <<>>, req.server, hashseed)
    /\ pc' = "done"
    /\ UNCHANGED <<req, error, hashseed, lv>>

NextOverlay == CallApplyExchangeOverview

SpecOverlay == InitOverlay /\ [][NextOverlay]_vars

OverlayDone == pc = "done" /\ req.fn = "_apply_exchange_overview_data"

\* the attributes of an entry the overlay may refresh
OverlayAttributes == {"sparkline", "trade_count", "change_percent", "icon_url"}

\* an attribute holds a known value: a non-empty series, an icon, or any
\* count or change, zero included
Known(attribute, value) ==
    IF attribute \in {"sparkline", "icon_url"} THEN Truthy(value) ELSE ~IsNull(value)

\* every number written anywhere in a JSON value
RECURSIVE NumbersIn(_)
NumbersIn(value) ==
    IF value.t \in {"int", "float"} THEN {value}
    ELSE IF value.t = "list" THEN UNION {NumbersIn(value.items[i]) : i \in DOMAIN value.items}
    ELSE IF value.t = "obj" THEN UNION {NumbersIn(value.f[k]) : k \in DOMAIN value.f}
    ELSE {}

\* the numbers the exchange lines and the detail pages of the call supply
SuppliedNumbers ==
    NumbersIn(Get(req.exchange_data, "lines"))
        \cup UNION {NumbersIn(DetailResponse(req.server, req.entries[i].details_id, endpoint)) :
                        i \in {j \in 1..Len(req.entries) : Truthy(req.entries[j].details_id)}, endpoint \in 1..2}

\* the value is one the lines or the detail pages supply: a change or the
\* points of a series as written, a count as a written number made integral
Supplied(attribute, value) ==
    CASE attribute = "change_percent" -> \E n \in SuppliedNumbers : FEq(value, n)
      [] attribute = "sparkline" ->
            \A i \in DOMAIN value.items : \E n \in SuppliedNumbers : FEq(value.items[i], n)
      [] attribute = "trade_count" -> \E n \in SuppliedNumbers : value \in {TruncInt(n), RoundInt(n)}
      [] OTHER -> FALSE

\* C18: every entry handed to _apply_exchange_overview_data keeps each known
\* sparkline, trade_count, change_percent and icon_url known after the call,
\* detail refinement included, and a known value changes only to a value
\* the exchange lines or the detail pages supply
C18_KnownValuesKept ==
    OverlayDone =>
        \A i \in 1..Len(req.entries) : \A attribute \in OverlayAttributes :
            Known(attribute, req.entries[i][attribute]) =>
                /\ Known(attribute, ret[i][attribute])
                /\ \/ ret[i][attribute] = req.entries[i][attribute]
                   \/ Supplied(attribute, ret[i][attribute])

\* a call that replaced a known count by a supplied one and kept a known
\* series the lines and the detail page had nothing for
C18_Witness ==
    /\ OverlayDone
    /\ \E i \in 1..Len(req.entries) :
         /\ Known("trade_count", req.entries[i].trade_count)
         /\ ret[i].trade_count # req.entries[i].trade_count
         /\ Known("sparkline", req.entries[i].sparkline)
         /\ ret[i].sparkline = req.entries[i].sparkline
         /\ Known("icon_url", req.entries[i].icon_url)

-----------------------------------------------------------------------------
(* _extract_float applied to JSON values *)

\* the characters of the generated texts: a digit, the point, the sign, a
\* blank and a letter
TextAlphabet == {"1", ".", "-", " ", "x"}

RECURSIVE TextsOf(_)
TextsOf(n) == IF n = 0 THEN {""} ELSE {""} \cup {c \o t : c \in TextAlphabet, t \in TextsOf(n - 1)}

\* the JSON values handed to _extract_float: null, booleans, numbers, texts,
\* lists and objects
ExtractValues ==
    {Null, JBool(TRUE), JBool(FALSE), JHuge, JInt(0), JInt(-4), JInt(7), JFloat(5, 2), JFloat(-1, 4),
     JList(<<>>), JList(<<JInt(1)>>), JObj([value |-> JInt(1)])}
    \cup {JStr(t) : t \in TextsOf(MaxTextLen)}

InitExtract ==
    /\ pc = "call"
    /\ req \in [fn : {"_extract_float"}, value : ExtractValues]
    /\ ret = Null
    /\ error = NoError
    /\ hashseed = 1
    /\ lv = Idle

\* one call of _extract_float(value)
CallExtractFloat ==
    /\ pc = "call"
    /\ req.fn = "_extract_float"
    /\ IF ExtractFloatRaises(req.value)
       THEN /\ pc' = "raised"
            /\ error' = Raised("OverflowError", "int too large to convert to float")
            /\ UNCHANGED ret
       ELSE /\ pc' = "done"
            /\ ret' = ExtractFloat(req.value)
            /\ UNCHANGED error
    /\ UNCHANGED <<req, hashseed, lv>>

NextExtract == CallExtractFloat

SpecExtract == InitExtract /\ [][NextExtract]_vars

ExtractFloatCalled == pc # "call" /\ req.fn = "_extract_float"

\* the text is a number in decimal notation: blanks around an optional sign
\* and digits with at most one point among them
DecimalText(text) ==
    \E i \in 1..Len(text) : \E j \in i..Len(text) :
        /\ \A k \in (1..Len(text)) \ (i..j) : CharAt(text, k) = " "
        /\ \A k \in (i + 1)..j : IsDigit(CharAt(text, k)) \/ CharAt(text, k) = "."
        /\ IsDigit(CharAt(text, i)) \/ CharAt(text, i) \in {".", "-", "+"}
        /\ \E k \in i..j : IsDigit(CharAt(text, k))
        /\ Cardinality({k \in i..j : CharAt(text, k) = "."}) <= 1

\* C22: _extract_float never raises; it returns a number for a JSON number and
\* for a text that is a number, and None for every other JSON value
C22_NumberOrAbsence ==
    ExtractFloatCalled =>
        /\ pc = "done"
        /\ IF req.value.t \in {"int", "float", "huge"} \/ (IsStr(req.value) /\ DecimalText(req.value.s))
           THEN ret.t = "float"
           ELSE IsNull(ret)

-----------------------------------------------------------------------------
(* _build_detail_maps and the lookups of _fetch_poe2_snapshot laid over each other *)

\* metadata records that share names and identifiers: with a name, an icon and
\* an id, with a details id, under another name field, with nested details,
\* with no icon
DetailRecordPool ==
    {JObj([name |-> JStr("Exalted Orb"), icon |-> JStr("/img/a.png"), id |-> JInt(7)]),
     JObj([name |-> JStr("Exalted Orb"), icon |-> JStr("/img/b.png"), detailsId |-> JStr("exalted-orb")]),
     JObj([currencyTypeName |-> JStr("Divine Orb"), icon |-> JStr("/img/c.png"), id |-> JInt(7)]),
     JObj([id |-> JInt(7), details |-> JObj([name |-> JStr("Mirror"), icon |-> JStr("/img/d.png")])]),
     JObj([name |-> JStr("Mirror"), id |-> JInt(7)])}

\* the maps drawn from the exchange overview: none, or colliding with the overview's
ExchangeIconMaps ==
    {<<>>, ("7" :> JStr("/img/e.png")), ("Exalted Orb" :> JStr("/img/f.png")) @@ ("chance" :> JStr("/img/g.png"))}
ExchangeNameMaps == {<<>>, ("7" :> JStr("Orb of Chance"))}

InitMaps ==
    /\ pc = "call"
    /\ req \in [fn : {"_build_detail_maps"}, currency_details : ListsOf(DetailRecordPool, MaxDetailRecords),
                exchange_icons : ExchangeIconMaps, exchange_names : ExchangeNameMaps]
    /\ ret = Null
    /\ error = NoError
    /\ hashseed = 1
    /\ lv = Idle

\* lines 483-491 of _fetch_poe2_snapshot: _build_detail_maps(currency_details),
\* then the overview maps and the exchange maps written into the lookups
CallBuildDetailMaps ==
    /\ pc = "call"
    /\ req.fn = "_build_detail_maps"
    /\ ret' = BuildDetailMaps(req.currency_details)
    /\ lv' = [icon_lookup |-> Update(Update(<<>>, ret'.icons), req.exchange_icons),
              name_lookup |-> Update(Update(<<>>, ret'.names), req.exchange_names)]
    /\ pc' = "done"
    /\ UNCHANGED <<req, error, hashseed>>

NextMaps == CallBuildDetailMaps

SpecMaps == InitMaps /\ [][NextMaps]_vars

BuildDetailMapsDone == pc = "done" /\ req.fn = "_build_detail_maps"

\* the name, the icon and the identifier keys a metadata record supplies
RecordName(record) ==
    IF IsDict(Get(record, "details")) /\ Truthy(Get(Get(record, "details"), "name"))
    THEN Get(Get(record, "details"), "name")
    ELSE OrChain(<<Get(record, "name"), Get(record, "currencyTypeName"), Get(record, "displayName")>>)

RecordIcon(record) ==
    IF IsDict(Get(record, "details")) /\ Truthy(Get(Get(record, "details"), "icon"))
    THEN Get(Get(record, "details"), "icon")
    ELSE Get(record, "icon")

RecordKeys(record) ==
    {v.s : v \in {w \in {RecordName(record), Get(record, "detailsId")} : IsStr(w)}}
        \cup {IntStr(v) : v \in {w \in {Get(record, "id")} : w.t = "int"}}

\* the record supplies an icon, or a name, for the key
SuppliesIcon(record, key) == key \in RecordKeys(record) /\ IsStr(RecordIcon(record))
SuppliesName(record, key) == key \in RecordKeys(record) /\ IsStr(RecordName(record))

\* the records after position i
After(records, i) == {records[j] : j \in (i + 1)..Len(records)}

SuppliedKeys == UNION {RecordKeys(req.currency_details[i]) : i \in 1..Len(req.currency_details)}

\* C23: for every key, the icon map and the name map of _build_detail_maps hold
\* the value of the last record that supplies one for the key, and the lookups
\* hold the exchange map's value wherever the exchange map has the key
C23_LastWriteWins ==
    BuildDetailMapsDone =>
        /\ \A key \in SuppliedKeys : \A i \in 1..Len(req.currency_details) :
              /\ (/\ SuppliesIcon(req.currency_details[i], key)
                  /\ \A later \in After(req.currency_details, i) : ~SuppliesIcon(later, key))
                 => ret.icons[key] = RecordIcon(req.currency_details[i])
              /\ (/\ SuppliesName(req.currency_details[i], key)
                  /\ \A later \in After(req.currency_details, i) : ~SuppliesName(later, key))
                 => ret.names[key] = RecordName(req.currency_details[i])
        /\ \A key \in DOMAIN req.exchange_icons : lv.icon_lookup[key] = req.exchange_icons[key]
        /\ \A key \in DOMAIN req.exchange_names : lv.name_lookup[key] = req.exchange_names[key]
        /\ \A key \in DOMAIN ret.icons \ DOMAIN req.exchange_icons : lv.icon_lookup[key] = ret.icons[key]
        /\ \A key \in DOMAIN ret.names \ DOMAIN req.exchange_names : lv.name_lookup[key] = ret.names[key]

\* two records supplied different icons and names for one key, and the
\* exchange maps collided with the overview maps on it
C23_Witness ==
    /\ BuildDetailMapsDone
    /\ \E i, j \in 1..Len(req.currency_details) :
          /\ i < j
          /\ "7" \in RecordKeys(req.currency_details[i]) \cap RecordKeys(req.currency_details[j])
          /\ IsStr(RecordIcon(req.currency_details[i])) /\ IsStr(RecordIcon(req.currency_details[j]))
          /\ RecordIcon(req.currency_details[i]) # RecordIcon(req.currency_details[j])
          /\ RecordName(req.currency_details[i]) # RecordName(req.currency_details[j])
    /\ "7" \in DOMAIN req.exchange_icons /\ lv.icon_lookup["7"] # ret.icons["7"]
    /\ "7" \in DOMAIN req.exchange_names /\ lv.name_lookup["7"] # ret.names["7"]

-----------------------------------------------------------------------------
(* _deduplicate_entries applied to bounded lists of entries, and to its own result *)

\* entries that share keys by name, by slug, or not at all: two of one name
\* and one value, one whose details_id is the slug of that name and whose
\* name is another entry's, one with trend and count, one without any key
DedupEntryPool ==
    {NewEntry(JStr("Exalted Orb"), JFloat(2, 1), JList(<<>>), Null, Null, Null),
     [NewEntry(JStr("Exalted Orb"), JFloat(2, 1), JList(<<>>), Null, Null, JStr("/img/ex.png"))
         EXCEPT !.change_percent = JFloat(-5, 1)],
     NewEntry(JStr("Mirror"), JFloat(3, 1), JList(<<>>), Null, JStr("exalted-orb"), Null),
     [NewEntry(JStr("Mirror"), JFloat(9, 1), JList(<<JFloat(1, 1)>>), JInt(4), Null, Null)
         EXCEPT !.divine_value = JFloat(3, 2)],
     NewEntry(JStr("Orb of Chance"), JFloat(0, 1), JList(<<>>), Null, Null, Null),
     NewEntry(JStr(""), JFloat(1, 1), JList(<<>>), Null, Null, Null)}

InitDedup ==
    /\ pc = "call"
    /\ req \in [fn : {"_deduplicate_entries"}, entries : ListsOf(DedupEntryPool, MaxDedupEntries)]
    /\ ret = Null
    /\ error = NoError
    /\ hashseed \in 1..NumSeeds
    /\ lv = Idle

\* one call of _deduplicate_entries(entries): ret is the list returned, lv
\* holds for every entry of the input the position of its owner
CallDeduplicate ==
    /\ pc = "call"
    /\ req.fn = "_deduplicate_entries"
    /\ (\E run \in {DedupRun(req.entries, hashseed)} :
           /\ ret' = OrderedOf(run)
           /\ lv' = [ordered |-> run.ordered, owners |-> run.owners, again |-> <<>>])
    /\ pc' = "done"
    /\ UNCHANGED <<req, error, hashseed>>

\* _deduplicate_entries called on the list the first call returned
CallDeduplicateAgain ==
    /\ pc = "done"
    /\ req.fn = "_deduplicate_entries"
    /\ lv' = [lv EXCEPT !.again = DeduplicateEntries(ret, hashseed)]
    /\ pc' = "again"
    /\ UNCHANGED <<req, ret, error, hashseed>>

NextDedup == CallDeduplicate \/ CallDeduplicateAgain

SpecDedup == InitDedup /\ [][NextDedup]_vars

DedupReturned == pc \in {"done", "again"} /\ req.fn = "_deduplicate_entries"

\* the keys of the entry at a position of the input list
InputKeys(i) == KeySet(CollectKeys(<<req.entries[i].details_id, req.entries[i].name>>, hashseed))

\* the positions whose entry shares a key with no entry before it
FirstOfGroup == {i \in 1..Len(req.entries) : \A j \in 1..(i - 1) : InputKeys(i) \cap InputKeys(j) = {}}

\* the positions of the entries merged into the owner at position o, o included
MergedInto(o) == {i \in 1..Len(req.entries) : lv.owners[i] = o}

\* C24: _deduplicate_entries returns the entries of the input that share a key
\* with no entry before them, in the order of the input and none besides;
\* the chaos_value of each is the largest among the entry and the duplicates
\* merged into it, and name and details_id are those of the input entry; a
\* duplicate is merged into the owner of an earlier entry it shares a key with
C24_FirstOwnersInOrder ==
    DedupReturned =>
        /\ {lv.ordered[k] : k \in 1..Len(lv.ordered)} = FirstOfGroup
        /\ \A k \in 1..(Len(lv.ordered) - 1) : lv.ordered[k] < lv.ordered[k + 1]
        /\ Len(ret) = Len(lv.ordered)
        /\ \A k \in 1..Len(ret) :
              /\ ret[k].name = req.entries[lv.ordered[k]].name
              /\ ret[k].details_id = req.entries[lv.ordered[k]].details_id
              /\ \E i \in MergedInto(lv.ordered[k]) : FEq(ret[k].chaos_value, req.entries[i].chaos_value)
              /\ \A i \in MergedInto(lv.ordered[k]) : ~FGt(req.entries[i].chaos_value, ret[k].chaos_value)
        /\ \A i \in 1..Len(req.entries) :
              \/ lv.owners[i] = i
              \/ /\ lv.owners[i] \in FirstOfGroup
                 /\ \E j \in 1..(i - 1) : lv.owners[j] = lv.owners[i] /\ InputKeys(i) \cap InputKeys(j) # {}

\* three entries of which the third was merged into the first, raising its
\* value, and the second stayed an owner behind it
C24_Witness ==
    /\ DedupReturned
    /\ Len(req.entries) = 3
    /\ lv.ordered = <<1, 2>>
    /\ lv.owners = <<1, 2, 1>>
    /\ FGt(ret[1].chaos_value, req.entries[1].chaos_value)

\* C30: _deduplicate_entries applied to its own result returns the same
\* entries in the same order with every attribute unchanged
C30_DedupIdempotent == (pc = "again") => lv.again = ret

\* a second call on a result whose owners had taken attributes from duplicates
C30_Witness ==
    /\ pc = "again"
    /\ Len(ret) = 2
    /\ Len(req.entries) = 3
    /\ \E k \in 1..2 : ret[k] # req.entries[lv.ordered[k]]

-----------------------------------------------------------------------------
(* The resolvers of the overlay and of the merger applied to the cascade's lines *)

InitResolvers ==
    /\ pc = "call"
    /\ req \in [fn : {"_compute_exchange_chaos_value", "_infer_poe2_chaos_value"}, line : CascadeLines,
                divine_rate : RateValues]
    /\ ret = Null
    /\ error = NoError
    /\ hashseed = 1
    /\ lv = Idle

\* one call of _compute_exchange_chaos_value(line, chaos_per_primary), whose
\* result _apply_exchange_overview_data writes as the entry's chaos_value
CallComputeExchangeChaos ==
    /\ pc = "call"
    /\ req.fn = "_compute_exchange_chaos_value"
    /\ ret' = ComputeExchangeChaosValue(req.line, req.divine_rate)
    /\ pc' = "done"
    /\ UNCHANGED <<req, error, hashseed, lv>>

\* lines 977 and 988 of _merge_poe2_data: _infer_poe2_chaos_value(row,
\* divine_rate) or 0.0 as the chaos_value of the new entry
CallInferPoe2Chaos ==
    /\ pc = "call"
    /\ req.fn = "_infer_poe2_chaos_value"
    /\ ret' = Or(InferPoe2ChaosValue(req.line, req.divine_rate), FZero)
    /\ pc' = "done"
    /\ UNCHANGED <<req, error, hashseed, lv>>

NextResolvers == CallComputeExchangeChaos \/ CallInferPoe2Chaos

SpecResolvers == InitResolvers /\ [][NextResolvers]_vars

\* C25: for every line and rate _compute_exchange_chaos_value returns what
\* _compute_chaos_from_line returns; a line with a direct base-unit field and
\* a primaryValue resolves to the direct field
C25_OverlayUsesTheCascade ==
    (pc = "done" /\ req.fn = "_compute_exchange_chaos_value") =>
        ret = ComputeChaosFromLine(req.line, req.divine_rate)

\* C26: for every item record and rate the chaos_value _merge_poe2_data gives
\* the new entry is what _compute_chaos_from_line returns on the record, and
\* 0 when that is None
C26_MergerUsesTheCascade ==
    (pc = "done" /\ req.fn = "_infer_poe2_chaos_value") =>
        ret = (IF IsNull(ComputeChaosFromLine(req.line, req.divine_rate)) THEN FZero
               ELSE ComputeChaosFromLine(req.line, req.divine_rate))

-----------------------------------------------------------------------------
(* _merge_poe2_data applied to rows and lines under a display-name map *)

\* item rows: named, known by a details id only, and with nothing to name them
NamedRowPool ==
    {JObj([name |-> JStr("Exalted Orb"), chaosValue |-> JInt(2)]),
     JObj([detailsId |-> JStr("exalted-orb"), chaosValue |-> JInt(3)]),
     JObj([chaosValue |-> JInt(1)])}

\* lines of the secondary source that carry a details id
NamedLinePool ==
    {JObj([currencyTypeName |-> JStr("Exalted Orb"), detailsId |-> JStr("exalted-orb")]),
     JObj([currencyTypeName |-> JStr("Unknown"), detailsId |-> JStr("mirror")]),
     JObj([detailsId |-> JStr("exalted-orb"), chaosEquivalent |-> JInt(3)])}

\* the display names the metadata map under details ids
NameMaps ==
    {<<>>, ("exalted-orb" :> JStr("Perfect Exalted Orb")) @@ ("mirror" :> JStr("Mirror")),
     ("mirror" :> JStr("Mirror of Kalandra"))}

InitMergeNames ==
    /\ pc = "call"
    /\ req \in [fn : {"_merge_poe2_data"}, items : ListsOf(NamedRowPool, MaxMergeItems),
                lines : ListsOf(NamedLinePool, MaxMergeLines), name_lookup : NameMaps]
    /\ ret = Null
    /\ error = NoError
    /\ hashseed \in 1..NumSeeds
    /\ lv = Idle

\* _build_overview_lookup(lines, name_lookup) and _merge_poe2_data(items,
\* overview_lookup, {}, name_lookup, None) as _fetch_poe2_snapshot calls them
CallMergeWithNames ==
    /\ pc = "call"
    /\ req.fn = "_merge_poe2_data"
    /\ (\E overview_lookup \in {BuildOverviewLookup(req.lines, req.name_lookup, hashseed)} :
           /\ lv' = [overview_lookup |-> overview_lookup]
           /\ ret' = MergePoe2Data(req.items, overview_lookup, <<>>, req.name_lookup, Null, hashseed))
    /\ pc' = "done"
    /\ UNCHANGED <<req, error, hashseed>>

NextMergeNames == CallMergeWithNames

SpecMergeNames == InitMergeNames /\ [][NextMergeNames]_vars

\* the name _merge_poe2_data resolves for a row before any overlay
ResolvedName(row) ==
    ExtractPoe2Name(row, IF IsDict(Get(row, "item")) THEN Get(row, "item")
                         ELSE IF IsDict(Get(row, "currency")) THEN Get(row, "currency") ELSE EmptyObj,
                    req.name_lookup)

\* C27: an entry whose name _merge_poe2_data resolved for its row, other than
\* 'Unknown', has that name after the overlay of the matching line
C27_ResolvedNameKept ==
    (pc = "done" /\ req.fn = "_merge_poe2_data") =>
        \A i \in 1..Len(req.items) :
            ResolvedName(req.items[i]) # JStr("Unknown") => ret[i].name = ResolvedName(req.items[i])

-----------------------------------------------------------------------------
(* The detail ids _apply_exchange_overview_data requests for long lists of entries *)

\* n entries in merge order, each with a details id; the one at position peak
\* is worth more than every other
PeakedEntries(n, peak) ==
    [i \in 1..n |-> NewEntry(JStr("Item " \o NatToStr(i)), IF i = peak THEN JFloat(100, 1) ELSE JFloat(1, 1),
                             JList(<<>>), Null, JStr("item-" \o NatToStr(i)), Null)]

\* the lengths of the lists: short ones, and as long as the cap and longer
EntryCounts == {1, 2} \cup {n \in 1..MaxDetailIds : n >= MAX_DETAIL_ENTRIES - 1}

InitTopN ==
    /\ pc = "call"
    /\ req \in [fn : {"_apply_exchange_overview_data"},
                entries : UNION {{PeakedEntries(n, peak) : peak \in 1..n} : n \in EntryCounts},
                exchange_data : {JObj([lines |-> JList(<<>>)])}]
    /\ ret = Null
    /\ error = NoError
    /\ hashseed = 1
    /\ lv = Idle

\* one call of _apply_exchange_overview_data on a body without lines and
\* without core rates, the detail endpoints down: the walk over the lines
\* changes no entry, lv holds the ids handed to _fetch_poe2_exchange_details,
\* which yields no detail, and ret the entries
CallOverlayOfMany ==
    /\ pc = "call"
    /\ req.fn = "_apply_exchange_overview_data"
    /\ lv' = [detail_ids |-> DetailIds(req.entries)]
    /\ ret' = req.entries
    /\ pc' = "done"
    /\ UNCHANGED <<req, error, hashseed>>

NextTopN == CallOverlayOfMany

SpecTopN == InitTopN /\ [][NextTopN]_vars

\* the entry's id is among those handed to _fetch_poe2_exchange_details
Requested(entry) == \E k \in 1..Len(lv.detail_ids) : lv.detail_ids[k] = entry.details_id

\* C28: at most MAX_DETAIL_ENTRIES ids are handed to _fetch_poe2_exchange_details,
\* and no entry that has an id and is left out has a larger chaos_value than
\* an entry whose id is handed over
C28_TopEntriesRequested ==
    (pc = "done" /\ req.fn = "_apply_exchange_overview_data") =>
        /\ Len(lv.detail_ids) <= MAX_DETAIL_ENTRIES
        /\ \A i, j \in 1..Len(ret) :
              (Requested(ret[i]) /\ Truthy(ret[j].details_id) /\ ~Requested(ret[j]))
                  => ~FGt(ret[j].chaos_value, ret[i].chaos_value)

-----------------------------------------------------------------------------
(* _apply_exchange_overview_data under the unit pairs and rate tables of the core *)

\* the rate tables of a core: every choice among a chaos, a divine and a secondary rate
RateTables ==
    {JObj([k \in S |-> CASE k = "chaos" -> JInt(6) [] k = "divine" -> JInt(180) [] OTHER -> JInt(4)]) :
        S \in SUBSET {"chaos", "divine", "secondary"}}

CorePool ==
    {JObj([primary |-> JStr(p), secondary |-> JStr(s), rates |-> r]) :
        p \in {"divine", "chaos", "exalted"}, s \in {"chaos", "divine"}, r \in RateTables}

\* the exchange lines of the item the detail page is about
PricedLinePool ==
    {JObj([id |-> JStr("exalted-orb"), primaryValue |-> JFloat(1, 2)]),
     JObj([id |-> JStr("exalted-orb"), secondaryValue |-> JInt(5)])}

InitCoreRates ==
    /\ pc = "call"
    /\ req \in [fn : {"_apply_exchange_overview_data"},
                entries : {<<NewEntry(JStr("Exalted Orb"), JFloat(2, 1), JList(<<>>), Null, JStr("exalted-orb"), Null)>>},
                core : CorePool, lines : ListsOf(PricedLinePool, MaxOverlayLines), server : DetailServers]
    /\ ret = Null
    /\ error = NoError
    /\ hashseed = 1
    /\ lv = Idle

\* one call of _apply_exchange_overview_data: lv holds the entries after the
\* walk over the exchange lines, ret the entries as the call leaves them
CallOverlayUnderCore ==
    /\ pc = "call"
    /\ req.fn = "_apply_exchange_overview_data"
    /\ (\E exchange_data \in {JObj([lines |-> JList(req.lines), core |-> req.core])} :
           /\ lv' = [overlaid |-> OverlaidEntries(req.entries, exchange_data, <<>>, <<>>, hashseed)]
           /\ ret' = ApplyExchangeOverviewData(req.entries, exchange_data, <<>>, <<>>, req.server, hashseed))
    /\ pc' = "done"
    /\ UNCHANGED <<req, error, hashseed>>

NextCoreRates == CallOverlayUnderCore

SpecCoreRates == InitCoreRates /\ [][NextCoreRates]_vars

\* the line of the detail page of an entry, Null when no page was fetched
DetailLineOf(entry) ==
    IF req.server = "down" THEN Null ELSE Get(DetailBody(entry.details_id), "line")

\* C29: the chaos_value of an entry refined from its detail page is the
\* primaryValue of the detail line times chaos_per_primary, the rate applied
\* to the exchange lines; without that rate the value of the walk over the
\* exchange lines stays
C29_DetailUsesOverlayRate ==
    (pc = "done" /\ req.fn = "_apply_exchange_overview_data") =>
        \A i \in 1..Len(lv.overlaid) :
            IsDict(DetailLineOf(lv.overlaid[i])) =>
                FEq(ret[i].chaos_value,
                    IF Truthy(DeriveChaosPerPrimary(req.core))
                    THEN FMul(ExtractFloat(Get(DetailLineOf(lv.overlaid[i]), "primaryValue")),
                              DeriveChaosPerPrimary(req.core))
                    ELSE lv.overlaid[i].chaos_value)

====
